---- MODULE Spec2Model ----
(***************************************************************************)
(* Lifecycle manager for one Ubuntu container (Bun scripts around the      *)
(* docker CLI).  One CLI invocation is a process that walks through its    *)
(* script; every await of the script is one step.  The engine (docker      *)
(* daemon, the managed container, the data directory) is the world the     *)
(* invocations observe and change; `trace` is the history of what one      *)
(* invocation printed, asked and executed.                                  *)
(***************************************************************************)
EXTENDS Integers, Sequences, FiniteSets, TLC

VARIABLES
  container,        \* the managed container in the engine: absent / stopped / running
  dataDir,          \* TRUE iff the data directory exists on the host
  dockerInstalled,  \* TRUE iff `command -v docker` succeeds
  daemonUp,         \* TRUE iff the docker daemon answers
  host,             \* host facts only setup reads: Docker.app and the files that exist
  action,           \* the action verb of the running invocation
  env,              \* process.env of the invocation
  args,             \* process.argv.slice(2) / the handler's args
  before,           \* the world as it was when the invocation began
  pc,               \* position of the invocation in its script
  exitCode,         \* process exit status, -1 while the process has not ended
  trace,            \* events of the invocation, oldest first
  obs,              \* what the invocation observed about the container
  todo,             \* cleanup: the commands still to run
  dockerBin,        \* setup: result of getDockerBin
  ubuntuRoot,       \* setup: where UBUNTU_ROOT points (env / arg / home / volume)
  dpc,              \* requireRunningDocker: position
  attempts,         \* requireRunningDocker: the loop's counter
  probes,           \* requireRunningDocker: liveness probes made inside the loop
  cname,            \* the container name a probe is asked about, letter by letter
  listing,          \* the names the engine lists: all containers, running containers
  found,            \* what the name probes answered
  reply,            \* how the listing behind getContainerStatus ended, and its output
  ret,              \* what getContainerStatus gave its caller
  file,             \* ~/.ubuntu-manager.json: missing, unparsable, or a JSON object
  config,           \* ConfigManager.config, the in-memory configuration
  backupFile,       \* ~/.ubuntu-manager.json.backup
  last,             \* the last ConfigManager operation, with what it started from
  watch             \* status --watch: the interval timer, the signal handler, the refreshes

world == <<container, dataDir, dockerInstalled, daemonUp>>
\* what the lifecycle steps never write: the name probes' and the configuration
\* manager's own state
probe == <<cname, listing, found, reply, ret>>
store == <<file, config, backupFile, last>>
aside == <<probe, store, watch>>

NoObject == [k \in {} |-> ""]
NoFile == [kind |-> "missing", obj |-> NoObject]
NoReply ==
  /\ reply = [how |-> "none", exitCode |-> 0, stdout |-> <<>>]
  /\ ret = [given |-> FALSE, threw |-> FALSE, value |-> NoObject]
NoProbe ==
  /\ cname = <<>>
  /\ listing = [all |-> {}, running |-> {}]
  /\ found = [exists |-> "unknown", running |-> "unknown"]
  /\ NoReply
NoStore ==
  /\ file = NoFile
  /\ config = NoObject
  /\ backupFile = NoFile
  /\ last = [op |-> "none", arg |-> "", threw |-> FALSE, file |-> NoFile,
              config |-> NoObject, n |-> 0]
NoWatch ==
  watch = [at |-> "none", timer |-> FALSE, handler |-> FALSE, inflight |-> 0,
           ticks |-> 0, shown |-> "nothing", code |-> -1]
NoAside == NoProbe /\ NoStore /\ NoWatch

inputs == <<host, action, env, args, before, aside>>
setupVars == <<dockerBin, ubuntuRoot>>
daemonVars == <<dpc, attempts, probes>>
vars == <<container, dataDir, dockerInstalled, daemonUp, host, action, env, args,
          before, pc, exitCode, trace, obs, todo, dockerBin, ubuntuRoot, dpc, attempts, probes,
          aside>>

lifecycle == <<container, dataDir, dockerInstalled, daemonUp, host, action, env, args,
               before, pc, exitCode, trace, obs, todo, dockerBin, ubuntuRoot, dpc, attempts,
               probes>>

----------------------------------------------------------------------------
(* Events of the trace *)

Call(c, a, ok) == [k |-> "call", c |-> c, a |-> a, ok |-> ok]
Dry(c, a)      == [k |-> "dry", c |-> c, a |-> a, ok |-> TRUE]
Ask(q, ans)    == [k |-> "ask", c |-> q, a |-> "", ok |-> ans]
Auto(q)        == [k |-> "auto", c |-> q, a |-> "", ok |-> TRUE]
Log(level, id) == [k |-> level, c |-> id, a |-> "", ok |-> TRUE]

Has(flag) == \E i \in DOMAIN args : args[i] = flag

----------------------------------------------------------------------------
(* Environment-derived constants of the scripts *)

DRY_RUN == env.DRY_RUN = "1"
FORCE == env.FORCE = "1"
Truthy(s) == s # ""

\* what a probe told the invocation: "yes" / "no", "unknown" before the probe
NoObs == [exists |-> "unknown", running |-> "unknown", docker |-> "unknown"]
Seen(b) == IF b THEN "yes" ELSE "no"
Observe(st) == [NoObs EXCEPT !.exists = Seen(st.exists), !.running = Seen(st.running)]
NoHost == [app |-> FALSE, files |-> {}]
NoEnv == [DRY_RUN |-> "", FORCE |-> "", AUTO_START |-> "", DATA_PATH |-> "",
          CONTAINER_NAME |-> ""]

----------------------------------------------------------------------------
(* The engine: which calls can succeed and what a successful call does *)

\* the scripts call `docker` through the search path; setup calls the binary it resolved
CliAvailable == dockerInstalled \/ (action = "setup" /\ dockerBin # "")
EngineReachable == CliAvailable /\ daemonUp

CanSucceed(c) ==
  CASE c = "docker start"    -> EngineReachable /\ container # "absent"
    [] c = "docker start -ai" -> EngineReachable /\ container # "absent"
    [] c = "docker stop"     -> EngineReachable /\ container # "absent"
    [] c = "docker kill"     -> EngineReachable /\ container = "running"
    [] c = "docker rm"       -> EngineReachable /\ container = "stopped"
    [] c = "docker exec"     -> EngineReachable /\ container = "running"
    [] c = "docker run"      -> EngineReachable /\ container = "absent"
    [] c = "docker commit"   -> EngineReachable /\ container # "absent"
    [] c = "docker pull"     -> EngineReachable
    [] c = "docker system prune" -> EngineReachable
    [] c = "docker image prune"  -> EngineReachable
    [] c = "docker volume prune" -> EngineReachable
    [] c = "docker ps"       -> EngineReachable
    [] c = "docker version"  -> EngineReachable
    [] OTHER                 -> TRUE

Outcomes(c) == IF CanSucceed(c) THEN BOOLEAN ELSE {FALSE}

\* the container after a successful call (a foreground session ends with the
\* container stopped, or still running when the user detached)
After(c) ==
  CASE c = "docker start"    -> {"running"}
    [] c = "docker start -ai" -> {"stopped", "running"}
    [] c = "docker stop"     -> {"stopped"}
    [] c = "docker kill"     -> {"stopped"}
    [] c = "docker rm"       -> {"absent"}
    [] c = "docker run"      -> {"stopped", "running"}
    [] c = "docker system prune" -> {IF container = "stopped" THEN "absent" ELSE container}
    [] OTHER                 -> {container}

\* one external command with result ok: the engine changes on success only
Engine(c, ok) ==
  /\ ok \in Outcomes(c)
  /\ container' \in (IF ok THEN After(c) ELSE {container})

Exit(code) == pc' = "done" /\ exitCode' = code
Goto(l) == pc' = l /\ exitCode' = exitCode
Say(evs) == trace' = trace \o evs

----------------------------------------------------------------------------
(* Probes *)

\* docker ps [-a] --format {{.Names}} | grep -x name
containerExists == EngineReachable /\ container # "absent"
containerRunning == EngineReachable /\ container = "running"

\* getContainerStatus: a failing or empty listing is "does not exist"
getContainerStatus ==
  IF ~EngineReachable \/ container = "absent"
  THEN [exists |-> FALSE, running |-> FALSE]
  ELSE [exists |-> TRUE, running |-> container = "running"]

----------------------------------------------------------------------------
(* Starting an invocation *)

Actions == {"start", "stop", "delete", "attach", "restart", "exec", "update",
            "cleanup", "backup", "setup", "status"}

ArgChoices(a) ==
  CASE a = "start" -> {<<>>, <<"--attach">>, <<"-a">>, <<"--detach">>,
                       <<"--attach", "--detach">>, <<"--help">>}
    [] a = "attach" -> {<<>>, <<"--start">>, <<"--help">>, <<"python3">>,
                        <<"ls", "-la">>, <<"sh">>}
    [] a = "restart" -> {<<>>, <<"--force">>, <<"--timeout=30">>, <<"--timeout=">>,
                         <<"--timeout=", "--timeout=30">>}
    [] a = "exec" -> {<<>>, <<"ls">>, <<"bash">>, <<"git", "push">>, <<"whoami">>,
                      <<"ls", "--interactive">>}
    [] a = "update" -> {<<>>, <<"--force">>}
    [] a = "cleanup" -> {<<>>, <<"--all">>, <<"--force">>, <<"--force", "--all">>,
                         <<"--force", "--images", "--volumes">>}
    [] a = "backup" -> {<<>>, <<"--no-compress">>, <<"--include-container">>}
    [] a = "setup" -> {<<>>, <<"--path", "/mnt">>, <<"--path=/mnt">>,
                       <<"--docker-bin", "/custom/docker">>}
    [] a = "status" -> {<<>>, <<"--compact">>, <<"-c">>, <<"--help">>}
    [] OTHER -> {<<>>}

\* the host facts setup reads: is Docker.app there, which docker binaries exist
HostChoices(a, ar) ==
  IF a # "setup" THEN {NoHost}
  ELSE {[app |-> ap, files |-> f] :
          ap \in BOOLEAN,
          f \in (IF ar = <<"--docker-bin", "/custom/docker">>
                 THEN {{}, {"/custom/docker"}}
                 ELSE {{}, {"/usr/local/bin/docker"}, {"/opt/homebrew/bin/docker"},
                       {"/usr/local/bin/docker", "/opt/homebrew/bin/docker"},
                       {"/opt/homebrew/bin/docker",
                        "/Applications/Docker.app/Contents/Resources/bin/docker"}})}

\* the environment variables the action reads; the others stay unset
EnvChoices(a) ==
  {[DRY_RUN |-> d, FORCE |-> f, AUTO_START |-> s, DATA_PATH |-> p,
    CONTAINER_NAME |-> ""] :
     d \in {"", "1"},
     f \in (IF a \in {"stop", "delete", "restart", "update", "cleanup"}
            THEN {"", "0", "1"} ELSE {""}),
     s \in (IF a = "attach" THEN {"", "1"} ELSE {""}),
     p \in (IF a = "setup" THEN {"", "/data"} ELSE {""})}

Init ==
  /\ container \in {"absent", "stopped", "running"}
  /\ dataDir \in BOOLEAN
  /\ dockerInstalled \in BOOLEAN
  /\ daemonUp \in BOOLEAN
  /\ host = NoHost
  /\ action = "none"
  /\ env = NoEnv
  /\ args = <<>>
  /\ before = world
  /\ pc = "idle"
  /\ exitCode = -1
  /\ trace = <<>>
  /\ obs = NoObs
  /\ todo = <<>>
  /\ dockerBin = ""
  /\ ubuntuRoot = ""
  /\ dpc = "idle"
  /\ attempts = 0
  /\ probes = 0
  /\ NoAside

\* the user types the next command at the shell prompt
Invoke ==
  /\ pc = "idle"
  /\ \E a \in Actions :
       /\ action' = a
       /\ args' \in ArgChoices(a)
       /\ env' \in EnvChoices(a)
       /\ host' \in HostChoices(a, args')
       /\ before' = world
       /\ pc' = IF a \in {"start", "stop", "delete", "attach"} THEN "check_docker" ELSE a
  /\ exitCode' = -1
  /\ trace' = <<>>
  /\ obs' = NoObs
  /\ todo' = <<>>
  /\ dockerBin' = ""
  /\ ubuntuRoot' = ""
  /\ dpc' = "idle"
  /\ attempts' = 0
  /\ probes' = 0
  /\ UNCHANGED <<world, aside>>

\* the process has ended and the shell prompt is back; what the process held is gone
Return ==
  /\ pc = "done"
  /\ pc' = "idle"
  /\ action' = "none"
  /\ env' = NoEnv
  /\ args' = <<>>
  /\ host' = NoHost
  /\ before' = world
  /\ exitCode' = -1
  /\ trace' = <<>>
  /\ obs' = NoObs
  /\ todo' = <<>>
  /\ dockerBin' = ""
  /\ ubuntuRoot' = ""
  /\ dpc' = "idle"
  /\ attempts' = 0
  /\ probes' = 0
  /\ UNCHANGED <<world, aside>>

----------------------------------------------------------------------------
(* Prologue shared by the start, stop, delete and attach scripts *)

IsHelp == (action = "start" /\ (Has("--help") \/ Has("-h")))
          \/ (action = "attach" /\ (Has("--help") \/ Has("-h")))

CheckDocker ==
  /\ pc = "check_docker"
  /\ IF IsHelp
     THEN Say(<<Log("msg", "help")>>) /\ Exit(0)
     ELSE IF ~dockerInstalled
     THEN Say(<<Log("err", "docker not installed")>>) /\ Exit(1)
     ELSE Say(<<>>) /\ Goto("check_daemon")
  /\ UNCHANGED <<world, inputs, obs, todo, setupVars, daemonVars>>

CheckDaemon ==
  /\ pc = "check_daemon"
  /\ IF ~daemonUp
     THEN Say(<<Log("err", "daemon not running")>>) /\ Exit(1)
     ELSE Say(<<>>) /\ Goto(action)
  /\ UNCHANGED <<world, inputs, obs, todo, setupVars, daemonVars>>

----------------------------------------------------------------------------
(* stop *)

StopExists ==
  /\ pc = "stop"
  /\ obs' = [obs EXCEPT !.exists = Seen(containerExists)]
  /\ IF ~containerExists
     THEN Say(<<Log("warn", "does not exist")>>) /\ Exit(0)
     ELSE Say(<<>>) /\ Goto("stop_running")
  /\ UNCHANGED <<world, inputs, todo, setupVars, daemonVars>>

\* faulty variant: stop without the running test
StopRunningUnchecked ==
  /\ pc = "stop_running"
  /\ obs' = [obs EXCEPT !.running = Seen(containerRunning)]
  /\ IF DRY_RUN
     THEN Say(<<Dry("docker stop", "")>>) /\ Exit(0)
     ELSE Say(<<>>) /\ Goto("stop_call")
  /\ UNCHANGED <<world, inputs, todo, setupVars, daemonVars>>

\* faulty variant: stop that prompts before the call
StopRunningAsks ==
  /\ pc = "stop_running"
  /\ obs' = [obs EXCEPT !.running = Seen(containerRunning)]
  /\ IF ~containerRunning
     THEN Say(<<Log("warn", "not running")>>) /\ Exit(0)
     ELSE IF DRY_RUN
     THEN Say(<<Dry("docker stop", "")>>) /\ Exit(0)
     ELSE \E yes \in BOOLEAN :
            IF yes
            THEN Say(<<Ask("stop container", TRUE)>>) /\ Goto("stop_call")
            ELSE Say(<<Ask("stop container", FALSE)>>) /\ Exit(0)
  /\ UNCHANGED <<world, inputs, todo, setupVars, daemonVars>>

StopRunning ==
  /\ pc = "stop_running"
  /\ obs' = [obs EXCEPT !.running = Seen(containerRunning)]
  /\ IF ~containerRunning
     THEN Say(<<Log("warn", "not running")>>) /\ Exit(0)
     ELSE IF DRY_RUN
     THEN Say(<<Dry("docker stop", "")>>) /\ Exit(0)
     ELSE Say(<<>>) /\ Goto("stop_call")
  /\ UNCHANGED <<world, inputs, todo, setupVars, daemonVars>>

StopCall ==
  /\ pc = "stop_call"
  /\ \E ok \in BOOLEAN :
       /\ Engine("docker stop", ok)
       /\ IF ok
          THEN Say(<<Call("docker stop", "", ok), Log("success", "stopped")>>) /\ Exit(0)
          ELSE Say(<<Call("docker stop", "", ok), Log("err", "failed to stop")>>)
               /\ Exit(1)
  /\ UNCHANGED <<dataDir, dockerInstalled, daemonUp, inputs, obs, todo, setupVars,
                 daemonVars>>

----------------------------------------------------------------------------
(* start *)

\* faulty variant: start without the existence test
StartExistsUnchecked ==
  /\ pc = "start"
  /\ obs' = [obs EXCEPT !.exists = Seen(containerExists)]
  /\ Say(<<>>) /\ Goto("start_running")
  /\ UNCHANGED <<world, inputs, todo, setupVars, daemonVars>>

StartExists ==
  /\ pc = "start"
  /\ obs' = [obs EXCEPT !.exists = Seen(containerExists)]
  /\ IF ~containerExists
     THEN Say(<<Log("err", "does not exist, run setup")>>) /\ Exit(1)
     ELSE Say(<<>>) /\ Goto("start_running")
  /\ UNCHANGED <<world, inputs, todo, setupVars, daemonVars>>

\* parseArgs
StartAttach == Has("--attach") \/ Has("-a")
\* faulty variant: --detach is not looked at
StartDetachIgnored == FALSE

StartDetach == Has("--detach") \/ Has("-d")

StartRunning ==
  /\ pc = "start_running"
  /\ obs' = [obs EXCEPT !.running = Seen(containerRunning)]
  /\ IF containerRunning
     THEN IF StartAttach
          THEN IF DRY_RUN
               THEN Say(<<Log("warn", "already running"),
                          Dry("docker exec", "-it /bin/bash")>>) /\ Exit(0)
               ELSE Say(<<Log("warn", "already running")>>) /\ Goto("start_exec")
          ELSE Say(<<Log("warn", "already running"), Log("msg", "alternatives")>>)
               /\ Exit(0)
     ELSE IF StartDetach
          THEN IF DRY_RUN
               THEN Say(<<Dry("docker start", "")>>) /\ Exit(0)
               ELSE Say(<<>>) /\ Goto("start_bg")
          ELSE IF DRY_RUN
               THEN Say(<<Dry("docker start -ai", "")>>) /\ Exit(0)
               ELSE Say(<<>>) /\ Goto("start_fg")
  /\ UNCHANGED <<world, inputs, todo, setupVars, daemonVars>>

StartExec ==
  /\ pc = "start_exec"
  /\ \E ok \in BOOLEAN :
       /\ Engine("docker exec", ok)
       /\ IF ok
          THEN Say(<<Call("docker exec", "-it /bin/bash", ok)>>) /\ Exit(0)
          ELSE Say(<<Call("docker exec", "-it /bin/bash", ok),
                     Log("err", "failed to attach")>>) /\ Exit(1)
  /\ UNCHANGED <<dataDir, dockerInstalled, daemonUp, inputs, obs, todo, setupVars,
                 daemonVars>>

StartBackground ==
  /\ pc = "start_bg"
  /\ \E ok \in BOOLEAN :
       /\ Engine("docker start", ok)
       /\ IF ok
          THEN Say(<<Call("docker start", "", ok), Log("success", "started in background")>>)
               /\ Exit(0)
          ELSE Say(<<Call("docker start", "", ok), Log("err", "failed to start")>>)
               /\ Exit(1)
  /\ UNCHANGED <<dataDir, dockerInstalled, daemonUp, inputs, obs, todo, setupVars,
                 daemonVars>>

StartForeground ==
  /\ pc = "start_fg"
  /\ \E ok \in BOOLEAN :
       /\ Engine("docker start -ai", ok)
       /\ IF ok
          THEN Say(<<Call("docker start -ai", "", ok), Log("success", "started")>>)
               /\ Exit(0)
          ELSE Say(<<Call("docker start -ai", "", ok), Log("err", "failed to start")>>)
               /\ Exit(1)
  /\ UNCHANGED <<dataDir, dockerInstalled, daemonUp, inputs, obs, todo, setupVars,
                 daemonVars>>

----------------------------------------------------------------------------
(* delete *)

Lower(ch) == IF ch = "Y" THEN "y" ELSE IF ch = "N" THEN "n" ELSE ch
Answers == {<<>>, <<"y">>, <<"Y", "e", "s">>, <<"n">>, <<"n", "y">>}

\* answer?.toLowerCase().startsWith('y') || false
Accepts(answer) == Len(answer) > 0 /\ Lower(answer[1]) = "y"

\* askYesNo: the events it produces, one per possible answer
askYesNo(question) ==
  IF FORCE THEN {Auto(question)}
  ELSE {Ask(question, Accepts(ans)) : ans \in Answers}

DeleteExists ==
  /\ pc = "delete"
  /\ obs' = [obs EXCEPT !.exists = Seen(containerExists)]
  /\ IF ~containerExists
     THEN Say(<<Log("warn", "does not exist")>>) /\ Exit(0)
     ELSE Say(<<Log("warn", "will permanently delete")>>) /\ Goto("delete_confirm")
  /\ UNCHANGED <<world, inputs, todo, setupVars, daemonVars>>

\* faulty variant: the answer to the deletion prompt is not looked at
DeleteConfirmIgnored ==
  /\ pc = "delete_confirm"
  /\ \E e \in askYesNo("delete container") : Say(<<e>>) /\ Goto("delete_running")
  /\ UNCHANGED <<world, inputs, obs, todo, setupVars, daemonVars>>

\* faulty variant: a declined deletion prompt is treated as an error
DeleteConfirmFatal ==
  /\ pc = "delete_confirm"
  /\ \E e \in askYesNo("delete container") :
       IF e.ok
       THEN Say(<<e>>) /\ Goto("delete_running")
       ELSE Say(<<e, Log("err", "operation cancelled")>>) /\ Exit(1)
  /\ UNCHANGED <<world, inputs, obs, todo, setupVars, daemonVars>>

DeleteConfirm ==
  /\ pc = "delete_confirm"
  /\ \E e \in askYesNo("delete container") :
       IF e.ok
       THEN Say(<<e>>) /\ Goto("delete_running")
       ELSE Say(<<e, Log("msg", "operation cancelled")>>) /\ Exit(0)
  /\ UNCHANGED <<world, inputs, obs, todo, setupVars, daemonVars>>

DeleteRunning ==
  /\ pc = "delete_running"
  /\ obs' = [obs EXCEPT !.running = Seen(containerRunning)]
  /\ IF containerRunning
     THEN IF ~DRY_RUN
          THEN Say(<<>>) /\ Goto("delete_stop")
          ELSE Say(<<Dry("docker stop", "")>>) /\ Goto("delete_rm")
     ELSE Say(<<>>) /\ Goto("delete_rm")
  /\ UNCHANGED <<world, inputs, todo, setupVars, daemonVars>>

\* faulty variant: a stop that failed is tried again
DeleteStopRetries ==
  /\ pc = "delete_stop"
  /\ \E ok \in BOOLEAN :
       /\ Engine("docker stop", ok)
       /\ trace' = trace \o <<Call("docker stop", "", ok)>>
                         \o (IF ok THEN <<>> ELSE <<Log("warn", "failed to stop")>>)
       /\ Goto(IF ok THEN "delete_rm" ELSE "delete_stop")
  /\ UNCHANGED <<dataDir, dockerInstalled, daemonUp, inputs, obs, todo, setupVars,
                 daemonVars>>

DeleteStop ==
  /\ pc = "delete_stop"
  /\ \E ok \in BOOLEAN :
       /\ Engine("docker stop", ok)
       /\ trace' = trace \o <<Call("docker stop", "", ok)>>
                         \o (IF ok THEN <<>> ELSE <<Log("warn", "failed to stop")>>)
  /\ Goto("delete_rm")
  /\ UNCHANGED <<dataDir, dockerInstalled, daemonUp, inputs, obs, todo, setupVars,
                 daemonVars>>

\* faulty variant: a failed removal is reported and the script goes on
DeleteRemoveGoesOn ==
  /\ pc = "delete_rm"
  /\ IF DRY_RUN
     THEN Say(<<Dry("docker rm", "")>>) /\ Goto("delete_dir") /\ UNCHANGED container
     ELSE \E ok \in BOOLEAN :
            /\ Engine("docker rm", ok)
            /\ IF ok
               THEN Say(<<Call("docker rm", "", ok), Log("success", "deleted")>>)
               ELSE Say(<<Call("docker rm", "", ok), Log("err", "failed to delete")>>)
            /\ Goto("delete_dir")
  /\ UNCHANGED <<dataDir, dockerInstalled, daemonUp, inputs, obs, todo, setupVars,
                 daemonVars>>

DeleteRemove ==
  /\ pc = "delete_rm"
  /\ IF DRY_RUN
     THEN Say(<<Dry("docker rm", "")>>) /\ Goto("delete_dir") /\ UNCHANGED container
     ELSE \E ok \in BOOLEAN :
            /\ Engine("docker rm", ok)
            /\ IF ok
               THEN Say(<<Call("docker rm", "", ok), Log("success", "deleted")>>)
                    /\ Goto("delete_dir")
               ELSE Say(<<Call("docker rm", "", ok), Log("err", "failed to delete")>>)
                    /\ Exit(1)
  /\ UNCHANGED <<dataDir, dockerInstalled, daemonUp, inputs, obs, todo, setupVars,
                 daemonVars>>

DeleteDataDir ==
  /\ pc = "delete_dir"
  /\ IF dataDir
     THEN \E e \in askYesNo("delete data directory") :
            IF e.ok
            THEN IF DRY_RUN
                 THEN Say(<<e, Dry("rm -rf", "data directory")>>) /\ Exit(0)
                 ELSE Say(<<e>>) /\ Goto("delete_rmrf")
            ELSE Say(<<e, Log("msg", "data directory preserved")>>) /\ Exit(0)
     ELSE Say(<<>>) /\ Exit(0)
  /\ UNCHANGED <<world, inputs, obs, todo, setupVars, daemonVars>>

DeleteRmRf ==
  /\ pc = "delete_rmrf"
  /\ \E ok \in BOOLEAN :
       /\ dataDir' = IF ok THEN FALSE ELSE dataDir
       /\ trace' = trace \o <<Call("rm -rf", "data directory", ok)>>
                         \o (IF ok THEN <<Log("success", "data directory deleted")>>
                             ELSE <<Log("warn", "failed to delete data directory")>>)
  /\ Exit(0)
  /\ UNCHANGED <<container, dockerInstalled, daemonUp, inputs, obs, todo, setupVars,
                 daemonVars>>

----------------------------------------------------------------------------
(* attach *)

RECURSIVE Join(_)
Join(s) == IF Len(s) = 0 THEN ""
           ELSE IF Len(s) = 1 THEN s[1]
           ELSE s[1] \o " " \o Join(Tail(s))

\* args.length > 0 ? args.join(" ") : "/bin/bash"
AttachCommand == IF Len(args) > 0 THEN Join(args) ELSE "/bin/bash"

\* the three shapes of the exec call (argument words carry no blank of their own)
AttachExecArgs ==
  IF AttachCommand \in {"/bin/bash", "bash", "sh"} THEN "-it " \o AttachCommand
  ELSE IF Len(args) > 1 THEN "-it /bin/bash -c " \o AttachCommand
  ELSE "-it " \o AttachCommand

AttachExists ==
  /\ pc = "attach"
  /\ obs' = [obs EXCEPT !.exists = Seen(containerExists)]
  /\ IF ~containerExists
     THEN Say(<<Log("err", "does not exist")>>) /\ Exit(1)
     ELSE Say(<<>>) /\ Goto("attach_running")
  /\ UNCHANGED <<world, inputs, todo, setupVars, daemonVars>>

autoStart == env.AUTO_START = "1" \/ Has("--start")

AttachRunning ==
  /\ pc = "attach_running"
  /\ obs' = [obs EXCEPT !.running = Seen(containerRunning)]
  /\ IF ~containerRunning
     THEN IF autoStart
          THEN IF DRY_RUN
               THEN Say(<<Log("warn", "not running"), Log("msg", "quick fixes"),
                          Dry("docker start", ""),
                          Dry("docker exec", "-it " \o AttachCommand)>>) /\ Exit(0)
               ELSE Say(<<Log("warn", "not running"), Log("msg", "quick fixes")>>)
                    /\ Goto("attach_start")
          ELSE Say(<<Log("warn", "not running"), Log("msg", "quick fixes"),
                     Log("msg", "tip: use --start")>>) /\ Exit(1)
     ELSE Say(<<>>) /\ Goto("attach_exec")
  /\ UNCHANGED <<world, inputs, todo, setupVars, daemonVars>>

\* faulty variant: attach goes on to exec after a failed start
AttachStartLenient ==
  /\ pc = "attach_start"
  /\ \E ok \in BOOLEAN :
       /\ Engine("docker start", ok)
       /\ IF ok
          THEN Say(<<Call("docker start", "", ok), Log("success", "started")>>)
          ELSE Say(<<Call("docker start", "", ok), Log("warn", "failed to start")>>)
  /\ Goto("attach_exec")
  /\ UNCHANGED <<dataDir, dockerInstalled, daemonUp, inputs, obs, todo, setupVars,
                 daemonVars>>

AttachStart ==
  /\ pc = "attach_start"
  /\ \E ok \in BOOLEAN :
       /\ Engine("docker start", ok)
       /\ IF ok
          THEN Say(<<Call("docker start", "", ok), Log("success", "started")>>)
               /\ Goto("attach_exec")
          ELSE Say(<<Call("docker start", "", ok), Log("err", "failed to start")>>)
               /\ Exit(1)
  /\ UNCHANGED <<dataDir, dockerInstalled, daemonUp, inputs, obs, todo, setupVars,
                 daemonVars>>

\* exit statuses of the attached session: clean, Ctrl+C, anything else
SessionCodes == {0, 130, 1}

AttachExec ==
  /\ pc = "attach_exec"
  /\ IF DRY_RUN
     THEN Say(<<Dry("docker exec", "-it " \o AttachCommand)>>) /\ Exit(0)
     ELSE \E code \in SessionCodes :
            /\ (code = 0) \in Outcomes("docker exec")
            /\ IF code = 0
               THEN Say(<<Call("docker exec", AttachExecArgs, TRUE),
                          Log("success", "session ended")>>) /\ Exit(0)
               ELSE IF code = 130
               THEN Say(<<Call("docker exec", AttachExecArgs, FALSE),
                          Log("info", "session interrupted")>>) /\ Exit(0)
               ELSE Say(<<Call("docker exec", AttachExecArgs, FALSE),
                          Log("err", "failed to attach")>>) /\ Exit(1)
  /\ UNCHANGED <<world, inputs, obs, todo, setupVars, daemonVars>>

----------------------------------------------------------------------------
(* restart (advanced commands; every call goes through safeExec, which never
   throws: a non-zero exit or a timeout is a result with ok = FALSE) *)

\* the words of the vocabulary that start with "--timeout=", and what follows the "="
IsTimeoutArg(tok) == tok \in {"--timeout=30", "--timeout="}
AfterEquals(tok) == IF tok = "--timeout=30" THEN "30" ELSE ""

\* faulty variant: the timeout without its default
RestartTimeoutNoDefault ==
  IF \E i \in DOMAIN args : IsTimeoutArg(args[i])
  THEN AfterEquals(args[CHOOSE i \in DOMAIN args :
                          /\ IsTimeoutArg(args[i])
                          /\ \A j \in DOMAIN args : IsTimeoutArg(args[j]) => i <= j])
  ELSE ""

\* args.find(arg => arg.startsWith("--timeout="))?.split("=")[1] || "10"
RestartTimeout ==
  IF \E i \in DOMAIN args : IsTimeoutArg(args[i])
  THEN LET first == CHOOSE i \in DOMAIN args :
                      /\ IsTimeoutArg(args[i])
                      /\ \A j \in DOMAIN args : IsTimeoutArg(args[j]) => i <= j
           v == AfterEquals(args[first])
       IN IF Truthy(v) THEN v ELSE "10"
  ELSE "10"

RestartForce == Has("--force") \/ env.FORCE = "1"

\* stopCommand, as the verb and its arguments
RestartStopVerb == IF RestartForce THEN "docker kill" ELSE "docker stop"
RestartStopArgs == IF RestartForce THEN "" ELSE "--time " \o RestartTimeout

RestartEntry ==
  /\ pc = "restart"
  /\ obs' = Observe(getContainerStatus)
  /\ IF ~getContainerStatus.exists
     THEN Say(<<Log("err", "does not exist")>>) /\ Exit(1)
     ELSE IF getContainerStatus.running
     THEN IF DRY_RUN
          THEN Say(<<Dry(RestartStopVerb, RestartStopArgs)>>) /\ Goto("restart_start")
          ELSE Say(<<>>) /\ Goto("restart_stop")
     ELSE Say(<<>>) /\ Goto("restart_start")
  /\ UNCHANGED <<world, inputs, todo, setupVars, daemonVars>>

RestartStop ==
  /\ pc = "restart_stop"
  /\ \E ok \in BOOLEAN :
       /\ Engine(RestartStopVerb, ok)
       /\ Say(<<Call(RestartStopVerb, RestartStopArgs, ok),
                Log("success", "container stopped")>>)
  /\ Goto("restart_start")
  /\ UNCHANGED <<dataDir, dockerInstalled, daemonUp, inputs, obs, todo, setupVars,
                 daemonVars>>

RestartStart ==
  /\ pc = "restart_start"
  /\ IF DRY_RUN
     THEN Say(<<Dry("docker start", "")>>) /\ UNCHANGED container
     ELSE \E ok \in BOOLEAN :
            /\ Engine("docker start", ok)
            /\ Say(<<Call("docker start", "", ok),
                     Log("success", "container restarted")>>)
  /\ Exit(0)
  /\ UNCHANGED <<dataDir, dockerInstalled, daemonUp, inputs, obs, todo, setupVars,
                 daemonVars>>

----------------------------------------------------------------------------
(* exec *)

\* the letters of the argument words (substring tests read them)
Chars(tok) ==
  CASE tok = "/bin/bash"     -> <<"/", "b", "i", "n", "/", "b", "a", "s", "h">>
    [] tok = "bash"          -> <<"b", "a", "s", "h">>
    [] tok = "ls"            -> <<"l", "s">>
    [] tok = "git"           -> <<"g", "i", "t">>
    [] tok = "push"          -> <<"p", "u", "s", "h">>
    [] tok = "whoami"        -> <<"w", "h", "o", "a", "m", "i">>
    [] tok = "--interactive" -> <<"-", "-", "i", "n", "t", "e", "r", "a", "c", "t", "i", "v", "e">>
    [] OTHER                 -> <<"?">>

RECURSIVE JoinChars(_)
JoinChars(s) == IF Len(s) = 0 THEN <<>>
                ELSE IF Len(s) = 1 THEN Chars(s[1])
                ELSE Chars(s[1]) \o <<" ">> \o JoinChars(Tail(s))

\* String.prototype.includes
Includes(hay, needle) ==
  \E i \in 1..(Len(hay) - Len(needle) + 1) : SubSeq(hay, i, i + Len(needle) - 1) = needle

\* if (args.length === 0) args = ["/bin/bash"]
ExecArgs == IF Len(args) = 0 THEN <<"/bin/bash">> ELSE args

needsTTY ==
  \/ Includes(JoinChars(ExecArgs), <<"b", "a", "s", "h">>)
  \/ Includes(JoinChars(ExecArgs), <<"s", "h">>)
  \/ \E i \in DOMAIN ExecArgs : ExecArgs[i] = "--interactive"

ExecFlags == (IF needsTTY THEN "-it " ELSE "") \o Join(ExecArgs)

ExecEntry ==
  /\ pc = "exec"
  /\ obs' = Observe(getContainerStatus)
  /\ IF ~getContainerStatus.exists
     THEN Say(<<Log("err", "does not exist"), Log("info", "quick fixes")>>) /\ Exit(1)
     ELSE IF ~getContainerStatus.running
     THEN Say(<<Log("err", "is stopped"), Log("info", "quick fixes")>>) /\ Exit(1)
     ELSE IF DRY_RUN
     THEN Say(<<Dry("docker exec", ExecFlags)>>) /\ Exit(0)
     ELSE Say(<<>>) /\ Goto("exec_spawn")
  /\ UNCHANGED <<world, inputs, todo, setupVars, daemonVars>>

\* what the child's close event reports: an exit status, or -1 for null (killed by a signal)
CloseCodes == {0, 2, -1}

ExecSpawn ==
  /\ pc = "exec_spawn"
  /\ \E code \in CloseCodes :
       LET result == IF code = -1 THEN 0 ELSE code  \* code || 0
       IN /\ (code = 0) \in Outcomes("docker exec")
          /\ IF result # 0
             THEN Say(<<Call("docker exec", ExecFlags, FALSE),
                        Log("err", "command failed")>>) /\ Exit(result)
             ELSE Say(<<Call("docker exec", ExecFlags, code = 0)>>) /\ Exit(0)
  /\ UNCHANGED <<world, inputs, obs, todo, setupVars, daemonVars>>

----------------------------------------------------------------------------
(* update *)

\* !process.env.FORCE && !args.includes("--force")
UpdateNeedsConfirmation == ~Truthy(env.FORCE) /\ ~Has("--force")

UpdateEntry ==
  /\ pc = "update"
  /\ obs' = Observe(getContainerStatus)
  /\ IF ~getContainerStatus.exists
     THEN Say(<<Log("err", "does not exist")>>) /\ Exit(1)
     ELSE IF UpdateNeedsConfirmation
     THEN Say(<<Log("warn", "will recreate container"),
                Log("info", "use --force to skip confirmation")>>) /\ Exit(0)
     ELSE IF DRY_RUN
     THEN Say(<<Dry("docker pull", "ubuntu:latest"), Dry("recreate container", "")>>)
          /\ Exit(0)
     ELSE Say(<<>>) /\ Goto("update_pull")
  /\ UNCHANGED <<world, inputs, todo, setupVars, daemonVars>>

UpdatePull ==
  /\ pc = "update_pull"
  /\ \E ok \in BOOLEAN :
       /\ Engine("docker pull", ok)
       /\ Say(<<Call("docker pull", "ubuntu:latest", ok),
                Log("success", "latest image pulled")>>)
  /\ Goto(IF obs.running = "yes" THEN "update_stop" ELSE "update_rm")
  /\ UNCHANGED <<dataDir, dockerInstalled, daemonUp, inputs, obs, todo, setupVars,
                 daemonVars>>

UpdateStop ==
  /\ pc = "update_stop"
  /\ \E ok \in BOOLEAN :
       /\ Engine("docker stop", ok)
       /\ Say(<<Call("docker stop", "", ok)>>)
  /\ Goto("update_rm")
  /\ UNCHANGED <<dataDir, dockerInstalled, daemonUp, inputs, obs, todo, setupVars,
                 daemonVars>>

UpdateRemove ==
  /\ pc = "update_rm"
  /\ \E ok \in BOOLEAN :
       /\ Engine("docker rm", ok)
       /\ Say(<<Call("docker rm", "", ok), Log("success", "container updated")>>)
  /\ Exit(0)
  /\ UNCHANGED <<dataDir, dockerInstalled, daemonUp, inputs, obs, todo, setupVars,
                 daemonVars>>

----------------------------------------------------------------------------
(* cleanup *)

CleanupForce == Has("--force") \/ env.FORCE = "1"

CleanupCommands ==
  <<IF Has("--all") THEN [c |-> "docker system prune", a |-> "-a -f"]
                    ELSE [c |-> "docker system prune", a |-> "-f"]>>
  \o (IF Has("--images") THEN <<[c |-> "docker image prune", a |-> "-a -f"]>> ELSE <<>>)
  \o (IF Has("--volumes") THEN <<[c |-> "docker volume prune", a |-> "-f"]>> ELSE <<>>)

CleanupEntry ==
  /\ pc = "cleanup"
  /\ IF ~CleanupForce
     THEN Say(<<Log("warn", "will remove unused resources"),
                Log("warn", "use --force to skip confirmation")>>)
          /\ Exit(0) /\ todo' = <<>>
     ELSE Say(<<>>) /\ Goto("cleanup_loop") /\ todo' = CleanupCommands
  /\ UNCHANGED <<world, inputs, obs, setupVars, daemonVars>>

CleanupStep ==
  /\ pc = "cleanup_loop"
  /\ IF todo = <<>>
     THEN Say(<<Log("success", "cleanup completed")>>) /\ Exit(0)
          /\ UNCHANGED <<todo, container>>
     ELSE /\ todo' = Tail(todo)
          /\ Goto("cleanup_loop")
          /\ IF DRY_RUN
             THEN Say(<<Dry(Head(todo).c, Head(todo).a)>>) /\ UNCHANGED container
             ELSE \E ok \in BOOLEAN :
                    /\ Engine(Head(todo).c, ok)
                    /\ Say(<<Call(Head(todo).c, Head(todo).a, ok)>>)
  /\ UNCHANGED <<dataDir, dockerInstalled, daemonUp, inputs, obs, setupVars, daemonVars>>

----------------------------------------------------------------------------
(* backup *)

BackupTarArgs == IF ~Has("--no-compress") THEN "-czf" ELSE "-cf"

BackupEntry ==
  /\ pc = "backup"
  /\ IF dataDir
     THEN IF DRY_RUN
          THEN Say(<<Dry("tar", BackupTarArgs)>>) /\ Goto("backup_container")
          ELSE Say(<<>>) /\ Goto("backup_tar")
     ELSE Say(<<Log("warn", "data directory does not exist")>>)
          /\ Goto("backup_container")
  /\ UNCHANGED <<world, inputs, obs, todo, setupVars, daemonVars>>

BackupTar ==
  /\ pc = "backup_tar"
  /\ \E ok \in BOOLEAN :
       Say(<<Call("tar", BackupTarArgs, ok), Log("success", "data backup created")>>)
  /\ Goto("backup_container")
  /\ UNCHANGED <<world, inputs, obs, todo, setupVars, daemonVars>>

BackupContainer ==
  /\ pc = "backup_container"
  /\ IF Has("--include-container")
     THEN /\ obs' = Observe(getContainerStatus)
          /\ IF getContainerStatus.exists
             THEN IF DRY_RUN
                  THEN Say(<<Dry("docker commit", "")>>) /\ Exit(0)
                  ELSE Say(<<>>) /\ Goto("backup_commit")
             ELSE Say(<<>>) /\ Exit(0)
     ELSE Say(<<>>) /\ Exit(0) /\ UNCHANGED obs
  /\ UNCHANGED <<world, inputs, todo, setupVars, daemonVars>>

BackupCommit ==
  /\ pc = "backup_commit"
  /\ \E ok \in BOOLEAN :
       /\ Engine("docker commit", ok)
       /\ Say(<<Call("docker commit", "", ok), Log("success", "snapshot created")>>)
  /\ Exit(0)
  /\ UNCHANGED <<dataDir, dockerInstalled, daemonUp, inputs, obs, todo, setupVars,
                 daemonVars>>

----------------------------------------------------------------------------
(* status *)

\* the usage text is printed before main is called; under DRY_RUN main returns at once
StatusEntry ==
  /\ pc = "status"
  /\ IF Has("--help") \/ Has("-h")
     THEN Say(<<Log("msg", "help")>>) /\ Exit(0)
     ELSE IF DRY_RUN
     THEN Say(<<Log("info", "DRY_RUN mode: Would check container status")>>) /\ Exit(0)
     ELSE Say(<<>>) /\ Goto("status_gather")
  /\ UNCHANGED <<world, inputs, obs, todo, setupVars, daemonVars>>

\* getDetailedStatus: the container listing and `docker version` run side by side,
\* each through safeExec with its own time limit; one that fails or runs out of
\* time reads as "not there" / "not running"
StatusGather ==
  /\ pc = "status_gather"
  /\ \E listed \in Outcomes("docker ps"), answered \in Outcomes("docker version") :
       obs' = [Observe(IF listed THEN getContainerStatus
                       ELSE [exists |-> FALSE, running |-> FALSE])
                 EXCEPT !.docker = Seen(answered)]
  /\ Say(<<Log("msg", "Status information gathered successfully")>>)
  /\ Goto("status_report")
  /\ UNCHANGED <<world, inputs, todo, setupVars, daemonVars>>

\* the container line of displayDetailedStatus / displayCompactStatus
StatusLine(o) ==
  IF o.exists = "yes"
  THEN IF o.running = "yes" THEN "Running" ELSE "Stopped"
  ELSE IF Has("--compact") \/ Has("-c") THEN "Not Created" ELSE "Container does not exist"

StatusExitCodeContainerFirst(o) ==
  IF o.exists # "yes" THEN 3
  ELSE IF o.running # "yes" THEN 1
  ELSE IF o.docker # "yes" THEN 2
  ELSE 0

StatusExitCode(o) ==
  IF o.docker # "yes" THEN 2
  ELSE IF o.exists # "yes" THEN 3
  ELSE IF o.running # "yes" THEN 1
  ELSE 0

StatusReport ==
  /\ pc = "status_report"
  /\ Say(<<Log("out", StatusLine(obs))>>)
  /\ Exit(StatusExitCode(obs))
  /\ UNCHANGED <<world, inputs, obs, todo, setupVars, daemonVars>>

----------------------------------------------------------------------------
(* setup: getDockerBin *)

Candidates == <<"/usr/local/bin/docker", "/opt/homebrew/bin/docker",
                "/Applications/Docker.app/Contents/Resources/bin/docker">>

\* the paths the resolution looks at, in the order it looks at them
DockerBinLooksAt(prefer, onPath, files) ==
  IF Truthy(prefer) THEN <<prefer>>
  ELSE IF onPath THEN <<"docker">>
  ELSE IF \E i \in DOMAIN Candidates : Candidates[i] \in files
  THEN <<"docker">> \o
       SubSeq(Candidates, 1, CHOOSE i \in DOMAIN Candidates :
                               /\ Candidates[i] \in files
                               /\ \A j \in 1..(i - 1) : Candidates[j] \notin files)
  ELSE <<"docker">> \o Candidates

getDockerBinFallsBack(prefer, onPath, files) ==
  IF Truthy(prefer) /\ prefer \in files THEN prefer
  ELSE IF onPath THEN "docker"
  ELSE IF \E i \in DOMAIN Candidates : Candidates[i] \in files
  THEN Candidates[CHOOSE i \in DOMAIN Candidates :
                    /\ Candidates[i] \in files
                    /\ \A j \in DOMAIN Candidates : Candidates[j] \in files => i <= j]
  ELSE ""

\* the resolved binary, "" when the resolution fails (err)
getDockerBin(prefer, onPath, files) ==
  IF Truthy(prefer)
  THEN IF prefer \in files THEN prefer ELSE ""
  ELSE IF onPath THEN "docker"
  ELSE IF \E i \in DOMAIN Candidates : Candidates[i] \in files
  THEN Candidates[CHOOSE i \in DOMAIN Candidates :
                    /\ Candidates[i] \in files
                    /\ \A j \in DOMAIN Candidates : Candidates[j] \in files => i <= j]
  ELSE ""

----------------------------------------------------------------------------
(* setup: requireRunningDocker *)

maxAttempts == 90
ProgressEvery == 15

\* faulty variant: the budget test off by one
BudgetExhaustedLate(n) == n > maxAttempts

\* if (attempts >= maxAttempts)
BudgetExhausted(n) == n >= maxAttempts

ProgressDueEveryTen(n) == n % 10 = 0

\* if (attempts % 15 === 0)
ProgressDue(n) == n % ProgressEvery = 0

\* faulty variant: the result of the first probe read the wrong way round
ProbeOnceInverted ==
  /\ dpc = "entry"
  /\ IF ~EngineReachable
     THEN Say(<<Log("msg", "docker is running")>>) /\ dpc' = "READY"
     ELSE IF DRY_RUN
     THEN Say(<<Log("msg", "docker is not running"),
                Log("msg", "DRY_RUN: would open Docker Desktop here")>>)
          /\ dpc' = "RETURNED"
     ELSE Say(<<Log("msg", "docker is not running")>>) /\ dpc' = "check_app"
  /\ UNCHANGED <<world, inputs, pc, exitCode, obs, todo, setupVars, attempts, probes>>

\* faulty variant: the first probe without the dry-run short cut
ProbeOnceNoDryRun ==
  /\ dpc = "entry"
  /\ IF EngineReachable
     THEN Say(<<Log("msg", "docker is running")>>) /\ dpc' = "READY"
     ELSE Say(<<Log("msg", "docker is not running")>>) /\ dpc' = "check_app"
  /\ UNCHANGED <<world, inputs, pc, exitCode, obs, todo, setupVars, attempts, probes>>

\* the first probe: `${dockerBin} ps` raced against a 5 s timer
ProbeOnce ==
  /\ dpc = "entry"
  /\ IF EngineReachable
     THEN Say(<<Log("msg", "docker is running")>>) /\ dpc' = "READY"
     ELSE IF DRY_RUN
     THEN Say(<<Log("msg", "docker is not running"),
                Log("msg", "DRY_RUN: would open Docker Desktop here")>>)
          /\ dpc' = "RETURNED"
     ELSE Say(<<Log("msg", "docker is not running")>>) /\ dpc' = "check_app"
  /\ UNCHANGED <<world, inputs, pc, exitCode, obs, todo, setupVars, attempts, probes>>

\* faulty variant: the launch is tried whether the application is there or not
CheckAppUnchecked ==
  /\ dpc = "check_app"
  /\ Say(<<>>) /\ dpc' = "open"
  /\ UNCHANGED <<world, inputs, pc, exitCode, obs, todo, setupVars, attempts, probes>>

CheckApp ==
  /\ dpc = "check_app"
  /\ IF ~host.app
     THEN Say(<<Log("err", "Docker Desktop not found")>>) /\ dpc' = "APP_MISSING"
     ELSE Say(<<>>) /\ dpc' = "open"
  /\ UNCHANGED <<world, inputs, pc, exitCode, obs, todo, setupVars, attempts, probes>>

OpenApp ==
  /\ dpc = "open"
  /\ \E ok \in BOOLEAN :
       IF ok
       THEN Say(<<Call("open", "-a Docker", TRUE)>>) /\ dpc' = "poll"
       ELSE Say(<<Call("open", "-a Docker", FALSE),
                  Log("err", "failed to open Docker Desktop")>>) /\ dpc' = "OPEN_FAILED"
  /\ attempts' = 0
  /\ UNCHANGED <<world, inputs, pc, exitCode, obs, todo, setupVars, probes>>

\* one turn of the for (;;) loop: count, sleep 1 s, probe, decide
\* faulty variant: the budget is looked at before the result of the probe
PollTickBudgetFirst ==
  /\ dpc = "poll"
  /\ attempts' = attempts + 1
  /\ probes' = probes + 1
  /\ daemonUp' \in (IF daemonUp THEN {TRUE} ELSE BOOLEAN)
  /\ IF BudgetExhausted(attempts')
     THEN Say(<<Log("err", "Docker Desktop didn't start within 90 seconds")>>)
          /\ dpc' = "TIMED_OUT"
     ELSE IF daemonUp'
     THEN Say(<<Log("msg", "docker started"), Log("msg", "docker is running")>>)
          /\ dpc' = "READY"
     ELSE IF ProgressDue(attempts')
     THEN Say(<<[k |-> "msg", c |-> "still waiting", a |-> ToString(attempts'),
                 ok |-> TRUE]>>) /\ dpc' = "poll"
     ELSE Say(<<>>) /\ dpc' = "poll"
  /\ UNCHANGED <<container, dataDir, dockerInstalled, inputs, pc, exitCode, obs, todo,
                 setupVars>>

PollTick ==
  /\ dpc = "poll"
  /\ attempts' = attempts + 1
  /\ probes' = probes + 1
  /\ daemonUp' \in (IF daemonUp THEN {TRUE} ELSE BOOLEAN)
  /\ IF daemonUp'
     THEN Say(<<Log("msg", "docker started"), Log("msg", "docker is running")>>)
          /\ dpc' = "READY"
     ELSE IF BudgetExhausted(attempts')
     THEN Say(<<Log("err", "Docker Desktop didn't start within 90 seconds")>>)
          /\ dpc' = "TIMED_OUT"
     ELSE IF ProgressDue(attempts')
     THEN Say(<<[k |-> "msg", c |-> "still waiting", a |-> ToString(attempts'),
                 ok |-> TRUE]>>) /\ dpc' = "poll"
     ELSE Say(<<>>) /\ dpc' = "poll"
  /\ UNCHANGED <<container, dataDir, dockerInstalled, inputs, pc, exitCode, obs, todo,
                 setupVars>>

----------------------------------------------------------------------------
(* setup: main *)

MaxVolumes == 1

IsEqualsArg(tok) == tok \in {"--path=/mnt", "--docker-bin=/custom/docker"}
SetupAfterEquals(tok) == IF tok = "--path=/mnt" THEN "/mnt" ELSE "/custom/docker"

\* the argument loop of main: [basePath, dockerBinArg], "" for undefined
RECURSIVE SetupParse(_, _)
SetupParse(i, acc) ==
  IF i > Len(args) THEN acc
  ELSE LET a == args[i]
           next == IF i + 1 <= Len(args) THEN args[i + 1] ELSE ""
       IN IF a \in {"--path", "-p"}
          THEN SetupParse(i + 2, [acc EXCEPT !.basePath = next])
          ELSE IF a = "--path=/mnt"
          THEN SetupParse(i + 1, [acc EXCEPT !.basePath = SetupAfterEquals(a)])
          ELSE IF a \in {"--docker-bin", "-d"}
          THEN SetupParse(i + 2, [acc EXCEPT !.dockerBinArg = next])
          ELSE IF a = "--docker-bin=/custom/docker"
          THEN SetupParse(i + 1, [acc EXCEPT !.dockerBinArg = SetupAfterEquals(a)])
          ELSE SetupParse(i + 1, acc)

SetupArgs == SetupParse(1, [basePath |-> "", dockerBinArg |-> ""])

SetupEntry ==
  /\ pc = "setup"
  /\ IF DRY_RUN
     THEN /\ Say(<<Log("msg", "DRY_RUN enabled: listing and exiting before any changes")>>)
          /\ Exit(0)
          /\ UNCHANGED ubuntuRoot
     ELSE IF Truthy(env.DATA_PATH)
     THEN Say(<<>>) /\ ubuntuRoot' = "env" /\ Goto("setup_bin")
     ELSE IF Truthy(SetupArgs.basePath)
     THEN Say(<<>>) /\ ubuntuRoot' = "arg" /\ Goto("setup_bin")
     ELSE \E vols \in 0..MaxVolumes :
            IF vols = 0
            THEN Say(<<>>) /\ ubuntuRoot' = "home" /\ Goto("setup_bin")
            ELSE \E idx \in 0..(vols + 2) :
                   IF idx < 1 \/ idx > vols + 1
                   THEN Say(<<Ask("volume number", FALSE), Log("err", "invalid selection")>>)
                        /\ Exit(1) /\ UNCHANGED ubuntuRoot
                   ELSE /\ Say(<<Ask("volume number", TRUE)>>)
                        /\ ubuntuRoot' = IF idx = vols + 1 THEN "home" ELSE "volume"
                        /\ Goto("setup_bin")
  /\ UNCHANGED <<world, inputs, obs, todo, dockerBin, daemonVars>>

SetupBin ==
  /\ pc = "setup_bin"
  /\ LET bin == getDockerBin(SetupArgs.dockerBinArg, dockerInstalled, host.files)
     IN IF bin = ""
        THEN /\ Say(<<Log("err", "docker CLI not found")>>) /\ Exit(1)
             /\ UNCHANGED <<dockerBin, dpc>>
        ELSE /\ Say(<<>>) /\ Goto("setup_daemon")
             /\ dockerBin' = bin
             /\ dpc' = "entry"
  /\ UNCHANGED <<world, inputs, obs, todo, ubuntuRoot, attempts, probes>>

\* requireRunningDocker returned, or threw into main().catch
SetupDaemonDone ==
  /\ pc = "setup_daemon"
  /\ dpc \in {"READY", "RETURNED", "APP_MISSING", "OPEN_FAILED", "TIMED_OUT"}
  /\ IF dpc \in {"READY", "RETURNED"} THEN Goto("setup_pull") ELSE Exit(1)
  /\ dpc' = "idle"
  /\ attempts' = 0
  /\ probes' = 0
  /\ UNCHANGED <<world, inputs, trace, obs, todo, setupVars>>

SetupPull ==
  /\ pc = "setup_pull"
  /\ \E ok \in BOOLEAN :
       /\ Engine("docker pull", ok)
       /\ IF ok
          THEN Say(<<Call("docker pull", "ubuntu:latest", ok)>>) /\ Goto("setup_mkdir")
          ELSE Say(<<Call("docker pull", "ubuntu:latest", ok), Log("err", "pull failed")>>)
               /\ Exit(1)
  /\ UNCHANGED <<dataDir, dockerInstalled, daemonUp, inputs, obs, todo, setupVars,
                 daemonVars>>

SetupMkdir ==
  /\ pc = "setup_mkdir"
  /\ \E there \in (IF ubuntuRoot = "home" THEN {dataDir} ELSE BOOLEAN) :
       IF there
       THEN Say(<<>>) /\ Goto("setup_container") /\ UNCHANGED dataDir
       ELSE \E ok \in BOOLEAN :
              IF ok
              THEN /\ Say(<<Call("mkdir", "-p UBUNTU_ROOT", TRUE)>>)
                   /\ Goto("setup_container")
                   /\ dataDir' = IF ubuntuRoot = "home" THEN TRUE ELSE dataDir
              ELSE /\ Say(<<Call("mkdir", "-p UBUNTU_ROOT", FALSE), Log("err", "mkdir failed")>>)
                   /\ Exit(1)
                   /\ UNCHANGED dataDir
  /\ UNCHANGED <<container, dockerInstalled, daemonUp, inputs, obs, todo, setupVars,
                 daemonVars>>

SetupContainer ==
  /\ pc = "setup_container"
  /\ obs' = [obs EXCEPT !.exists = Seen(containerExists)]
  /\ IF containerExists
     THEN Say(<<Log("msg", "reusing existing container")>>) /\ Goto("setup_start")
     ELSE Say(<<Call("write", ".setup-env.sh", TRUE), Call("chmod", "+x .setup-env.sh", TRUE)>>)
          /\ Goto("setup_run")
  /\ UNCHANGED <<world, inputs, todo, setupVars, daemonVars>>

SetupStart ==
  /\ pc = "setup_start"
  /\ \E ok \in BOOLEAN :
       /\ Engine("docker start -ai", ok)
       /\ IF ok
          THEN Say(<<Call("docker start -ai", "", ok), Log("msg", "container stopped")>>)
               /\ Exit(0)
          ELSE Say(<<Call("docker start -ai", "", ok), Log("err", "start failed")>>)
               /\ Exit(1)
  /\ UNCHANGED <<dataDir, dockerInstalled, daemonUp, inputs, obs, todo, setupVars,
                 daemonVars>>

SetupRun ==
  /\ pc = "setup_run"
  /\ \E ok \in BOOLEAN :
       /\ Engine("docker run", ok)
       /\ IF ok
          THEN Say(<<Call("docker run", "-it", ok), Log("msg", "container stopped")>>)
               /\ Exit(0)
          ELSE Say(<<Call("docker run", "-it", ok), Log("err", "run failed")>>)
               /\ Exit(1)
  /\ UNCHANGED <<dataDir, dockerInstalled, daemonUp, inputs, obs, todo, setupVars,
                 daemonVars>>

----------------------------------------------------------------------------
Next ==
  \/ Invoke
  \/ Return
  \/ CheckDocker
  \/ CheckDaemon
  \/ StopExists
  \/ StopRunning
  \/ StopCall
  \/ StartExists
  \/ StartRunning
  \/ StartExec
  \/ StartBackground
  \/ StartForeground
  \/ DeleteExists
  \/ DeleteConfirm
  \/ DeleteRunning
  \/ DeleteStop
  \/ DeleteRemove
  \/ DeleteDataDir
  \/ DeleteRmRf
  \/ AttachExists
  \/ AttachRunning
  \/ AttachStart
  \/ AttachExec
  \/ RestartEntry
  \/ RestartStop
  \/ RestartStart
  \/ ExecEntry
  \/ ExecSpawn
  \/ UpdateEntry
  \/ UpdatePull
  \/ UpdateStop
  \/ UpdateRemove
  \/ CleanupEntry
  \/ CleanupStep
  \/ BackupEntry
  \/ BackupTar
  \/ BackupContainer
  \/ BackupCommit
  \/ StatusEntry
  \/ StatusGather
  \/ StatusReport
  \/ SetupEntry
  \/ SetupBin
  \/ ProbeOnce
  \/ CheckApp
  \/ OpenApp
  \/ PollTick
  \/ SetupDaemonDone
  \/ SetupPull
  \/ SetupMkdir
  \/ SetupContainer
  \/ SetupStart
  \/ SetupRun

Spec == Init /\ [][Next]_vars

----------------------------------------------------------------------------
(* requireRunningDocker on its own: called with any binary, any DRY_RUN *)

InitDaemon ==
  /\ container = "absent"
  /\ dataDir = FALSE
  /\ dockerInstalled = TRUE
  /\ daemonUp \in BOOLEAN
  /\ host \in {[app |-> ap, files |-> {}] : ap \in BOOLEAN}
  /\ action = "setup"
  /\ env \in {[NoEnv EXCEPT !.DRY_RUN = d] : d \in {"", "1"}}
  /\ args = <<>>
  /\ before = world
  /\ pc = "daemon"
  /\ exitCode = -1
  /\ trace = <<>>
  /\ obs = NoObs
  /\ todo = <<>>
  /\ dockerBin = "docker"
  /\ ubuntuRoot = ""
  /\ dpc = "entry"
  /\ attempts = 0
  /\ probes = 0
  /\ NoAside

NextDaemon ==
  \/ ProbeOnce
  \/ CheckApp
  \/ OpenApp
  \/ PollTick

SpecDaemon == InitDaemon /\ [][NextDaemon]_vars

\* the starter is a running async function: a timer or a probe that is due fires
FairSpecDaemon == SpecDaemon /\ WF_vars(NextDaemon)

----------------------------------------------------------------------------
(* Vocabulary of the properties *)

\* an invocation "issues" a call by executing it, or under dry-run by printing it
IssueKind == IF DRY_RUN THEN "dry" ELSE "call"
IsIssue(e) == e.k = IssueKind
Issued == SelectSeq(trace, IsIssue)
Verbs(s) == [i \in DOMAIN s |-> s[i].c]
IssuedAt(i, c) == i \in DOMAIN trace /\ trace[i].k = IssueKind /\ trace[i].c = c
Issues(c) == \E i \in DOMAIN trace : IssuedAt(i, c)
Executes(c) == \E i \in DOMAIN trace : trace[i].k = "call" /\ trace[i].c = c
Mentions(c) == \E i \in DOMAIN trace : trace[i].k \in {"call", "dry"} /\ trace[i].c = c
Describes(c) == \E i \in DOMAIN trace : trace[i].k = "dry" /\ trace[i].c = c
AcceptedAt(i, q) ==
  i \in DOMAIN trace /\ trace[i].k \in {"ask", "auto"} /\ trace[i].c = q /\ trace[i].ok
Prompted == \E i \in DOMAIN trace : trace[i].k \in {"ask", "auto"}

\* the calls that change the engine, the data directory or the backup archive
MutatingVerbs ==
  {"docker start", "docker start -ai", "docker stop", "docker kill", "docker rm",
   "docker run", "docker pull", "docker commit", "docker system prune",
   "docker image prune", "docker volume prune", "rm -rf", "tar"}

----------------------------------------------------------------------------
(* C1 - dry-run law *)

\* the calls a dry-run invocation would have issued had DRY_RUN not been set, read
\* off the world it ran against (a dry-run invocation leaves the world as it found it)
Intended ==
  CASE action = "start" ->
         IF IsHelp \/ ~dockerInstalled \/ ~daemonUp \/ container = "absent" THEN {}
         ELSE IF container = "running"
         THEN (IF StartAttach THEN {"docker exec"} ELSE {})
         ELSE IF StartDetach THEN {"docker start"} ELSE {"docker start -ai"}
    [] action = "stop" ->
         IF dockerInstalled /\ daemonUp /\ container = "running"
         THEN {"docker stop"} ELSE {}
    [] action = "delete" ->
         IF \E i \in DOMAIN trace : AcceptedAt(i, "delete container")
         THEN (IF container = "running" THEN {"docker stop"} ELSE {})
              \cup {"docker rm"}
              \cup (IF \E i \in DOMAIN trace : AcceptedAt(i, "delete data directory")
                    THEN {"rm -rf"} ELSE {})
         ELSE {}
    [] action = "attach" ->
         IF IsHelp \/ ~dockerInstalled \/ ~daemonUp \/ container = "absent" THEN {}
         ELSE IF container = "running" THEN {"docker exec"}
         ELSE IF autoStart THEN {"docker start", "docker exec"} ELSE {}
    [] action = "restart" ->
         IF ~getContainerStatus.exists THEN {}
         ELSE (IF getContainerStatus.running
               THEN {IF Has("--force") \/ env.FORCE = "1" THEN "docker kill"
                     ELSE "docker stop"}
               ELSE {}) \cup {"docker start"}
    [] action = "exec" ->
         IF getContainerStatus.running THEN {"docker exec"} ELSE {}
    [] action = "update" ->
         IF getContainerStatus.exists /\ ~UpdateNeedsConfirmation
         THEN {"docker pull"} ELSE {}
    [] action = "cleanup" ->
         IF Has("--force") \/ env.FORCE = "1"
         THEN {"docker system prune"}
              \cup (IF Has("--images") THEN {"docker image prune"} ELSE {})
              \cup (IF Has("--volumes") THEN {"docker volume prune"} ELSE {})
         ELSE {}
    [] action = "backup" ->
         (IF dataDir THEN {"tar"} ELSE {})
         \cup (IF Has("--include-container") /\ getContainerStatus.exists
               THEN {"docker commit"} ELSE {})
    [] action = "setup" ->
         IF /\ Truthy(env.DATA_PATH) \/ Truthy(SetupArgs.basePath)
            /\ getDockerBin(SetupArgs.dockerBinArg, dockerInstalled, host.files) # ""
            /\ daemonUp
         THEN {"docker pull"} ELSE {}
    [] OTHER -> {}

\* under dry-run nothing that changes state is executed
NoMutatingCallUnderDryRun ==
  DRY_RUN => \A i \in DOMAIN trace :
               ~(trace[i].k = "call" /\ trace[i].c \in MutatingVerbs)

\* a finished dry-run invocation has printed every call it would have issued
IntendedCallsDescribed ==
  (DRY_RUN /\ pc = "done") => \A c \in Intended : Describes(c)

\* the law with setup set aside: it holds for the nine other actions
DryRunLawExceptSetup ==
  /\ NoMutatingCallUnderDryRun
  /\ action # "setup" => IntendedCallsDescribed

\* C1: under DRY_RUN=1, for every action, every container state and every flag
\* combination, no state-mutating call is executed and every call that would have
\* been issued is replaced by a printed description.
C1_DryRunLaw ==
  /\ NoMutatingCallUnderDryRun
  /\ IntendedCallsDescribed

\* the run that breaks C1: a dry-run setup that would have pulled the image ends
\* without having described the pull
C1_SetupSilent ==
  /\ action = "setup" /\ DRY_RUN /\ pc = "done" /\ exitCode = 0
  /\ "docker pull" \in Intended
  /\ ~Mentions("docker pull")

----------------------------------------------------------------------------
(* C2 - start against an absent container *)

\* C2: when the container does not exist, start ends with the fatal error that
\* points the user to setup, exits non-zero, and issues neither docker start nor
\* docker exec (executed or described).
C2_StartAbsent ==
  /\ (action = "start" /\ pc = "done" /\ obs.exists = "no") =>
       /\ exitCode # -1 /\ exitCode # 0
       /\ trace # <<>>
       /\ trace[Len(trace)] = Log("err", "does not exist, run setup")
  /\ (action = "start" /\ container = "absent") =>
       /\ ~Mentions("docker start") /\ ~Mentions("docker start -ai")
       /\ ~Mentions("docker exec")
       /\ (pc = "done" /\ ~IsHelp) => exitCode # 0

C2_Witness ==
  /\ action = "start" /\ pc = "done" /\ ~DRY_RUN
  /\ container = "absent" /\ obs.exists = "no"
  /\ exitCode = 1

----------------------------------------------------------------------------
(* C3 - stop *)

\* C3: stop issues docker stop iff it observed the container existing and running;
\* against an absent or stopped container it ends with one warning, exit status 0
\* and no stop call, and it leaves the world as it found it, so every repetition of
\* stop against a stopped container meets the same world and ends the same way.
C3_Stop ==
  /\ (action = "stop" /\ Issues("docker stop")) => obs.running = "yes"
  /\ (action = "stop" /\ pc = "done") =>
       /\ Issues("docker stop") <=> (obs.exists = "yes" /\ obs.running = "yes")
       /\ obs.exists = "no" =>
            /\ trace = <<Log("warn", "does not exist")>>
            /\ exitCode = 0
            /\ world = before
       /\ (obs.exists = "yes" /\ obs.running = "no") =>
            /\ trace = <<Log("warn", "not running")>>
            /\ exitCode = 0
            /\ world = before

C3_Witness ==
  /\ action = "stop" /\ pc = "done" /\ ~DRY_RUN
  /\ container = "stopped" /\ obs.running = "no"
  /\ trace = <<Log("warn", "not running")>> /\ exitCode = 0
  /\ world = before

----------------------------------------------------------------------------
(* C4 - restart *)

\* C4: restart against an absent container fails with no call; against a stopped
\* container it issues docker start alone; against a running container it issues
\* exactly one stopping call (docker kill when forced by --force or FORCE=1,
\* otherwise docker stop with the --timeout value, 10 when none is given) and
\* docker start only after it.
C4_Restart ==
  (action = "restart" /\ pc = "done") =>
    /\ obs.exists = "no" => (Issued = <<>> /\ exitCode # 0)
    /\ (obs.exists = "yes" /\ obs.running = "no") => Verbs(Issued) = <<"docker start">>
    /\ obs.running = "yes" =>
         /\ Len(Issued) = 2
         /\ Issued[2].c = "docker start"
         /\ IF Has("--force") \/ env.FORCE = "1"
            THEN Issued[1].c = "docker kill"
            ELSE /\ Issued[1].c = "docker stop"
                 /\ args = <<>> => Issued[1].a = "--time 10"
                 /\ args = <<"--timeout=30">> => Issued[1].a = "--time 30"
                 /\ Issued[1].a \in {"--time 10", "--time 30"}

C4_Witness ==
  /\ action = "restart" /\ pc = "done" /\ ~DRY_RUN
  /\ obs.running = "yes" /\ args = <<>> /\ env.FORCE = ""
  /\ Issued = <<Call("docker stop", "--time 10", TRUE), Call("docker start", "", TRUE)>>
  /\ container = "running"

----------------------------------------------------------------------------
(* C5 - delete: the order of the events *)

\* C5: in delete, docker rm is issued only after the deletion confirmation was
\* accepted (by the user, or automatically under FORCE); when the container was
\* observed running, docker stop is issued before docker rm; the data directory
\* is removed only after docker rm succeeded and the second confirmation was
\* accepted after it; against an absent container delete is one warning, with
\* no prompt and no call.
C5_DeleteOrder ==
  action = "delete" =>
    /\ \A i \in DOMAIN trace :
         /\ IssuedAt(i, "docker rm") =>
              /\ \E j \in 1..(i - 1) : AcceptedAt(j, "delete container")
              /\ obs.running = "yes" => \E j \in 1..(i - 1) : IssuedAt(j, "docker stop")
         /\ IssuedAt(i, "rm -rf") =>
              \E j \in 1..(i - 1) :
                /\ IssuedAt(j, "docker rm") /\ trace[j].ok
                /\ \E k \in (j + 1)..(i - 1) : AcceptedAt(k, "delete data directory")
    /\ dataDir # before[2] => Executes("rm -rf")
    /\ (pc = "done" /\ obs.exists = "no") =>
         /\ trace = <<Log("warn", "does not exist")>>
         /\ exitCode = 0

C5_Witness ==
  /\ action = "delete" /\ pc = "done" /\ ~DRY_RUN /\ ~FORCE
  /\ obs.running = "yes"
  /\ \E i, j, k, l \in DOMAIN trace :
       /\ i < j /\ j < k /\ k < l
       /\ trace[i] = Ask("delete container", TRUE)
       /\ trace[j] = Call("docker stop", "", TRUE)
       /\ trace[k] = Call("docker rm", "", TRUE)
       /\ trace[l] = Call("rm -rf", "data directory", TRUE)
  /\ container = "absent" /\ ~dataDir

----------------------------------------------------------------------------
(* C6 - no destructive call without force or confirmation *)

NotForced == ~Has("--force") /\ env.FORCE # "1"
Confirmed == \E i \in DOMAIN trace : trace[i].k \in {"ask", "auto"} /\ trace[i].ok
ExecutesMutation ==
  \E i \in DOMAIN trace : trace[i].k = "call" /\ trace[i].c \in MutatingVerbs

\* the gate as delete and cleanup keep it
GateOfDeleteAndCleanup ==
  (action \in {"delete", "cleanup"} /\ NotForced /\ ~Confirmed) => ~ExecutesMutation

\* C6: delete, cleanup and update, when not forced (no --force, FORCE not 1) and
\* not confirmed, execute no state-mutating call.
C6_GateHolds ==
  (action \in {"delete", "cleanup", "update"} /\ NotForced /\ ~Confirmed)
    => ~ExecutesMutation

\* the run that breaks C6: update under FORCE=0 pulls, stops and removes unasked
C6_UpdateUnasked ==
  /\ action = "update" /\ env.FORCE = "0" /\ args = <<>> /\ pc = "done"
  /\ ~Prompted
  /\ Executes("docker pull") /\ Executes("docker stop") /\ Executes("docker rm")
  /\ before[1] = "running" /\ container = "absent"

----------------------------------------------------------------------------
(* C7 - stop and confirmation *)

\* C7, as stated: stop, when not forced, obtains a confirmation before it
\* executes docker stop against a running container.
C7_StopConfirmsFirst ==
  (action = "stop" /\ env.FORCE # "1") =>
    \A i \in DOMAIN trace :
      (trace[i].k = "call" /\ trace[i].c = "docker stop") =>
        \E j \in 1..(i - 1) : trace[j].k = "ask" /\ trace[j].ok

\* C7, as the code has it: stop never asks; whatever FORCE is, it executes docker
\* stop against a container it observed running without any confirmation.
C7_StopNeverAsks ==
  action = "stop" =>
    /\ ~Prompted
    /\ (pc = "done" /\ obs.running = "yes" /\ ~DRY_RUN) => Executes("docker stop")

C7_Witness ==
  /\ action = "stop" /\ pc = "done" /\ env.FORCE = "" /\ ~DRY_RUN
  /\ before[1] = "running" /\ container = "stopped"
  /\ trace[1] = Call("docker stop", "", TRUE)

----------------------------------------------------------------------------
(* C8 - declining the delete confirmation *)

Declined ==
  action = "delete"
  /\ \E i \in DOMAIN trace : trace[i] = Ask("delete container", FALSE)

\* C8, as stated: after a declined delete confirmation no call is issued, the
\* data directory is untouched and the process exits non-zero.
C8_DeclineExitsNonZero ==
  (Declined /\ pc = "done") =>
    /\ ~\E i \in DOMAIN trace : trace[i].k \in {"call", "dry"}
    /\ dataDir = before[2]
    /\ exitCode # 0

\* C8, as the code has it: a declined delete confirmation ends the action at once
\* with "Operation cancelled.": no call is issued or described, the container and
\* the data directory are untouched, and the exit status is 0.
C8_DeclineEndsQuietly ==
  Declined =>
    /\ pc = "done"
    /\ ~\E i \in DOMAIN trace : trace[i].k \in {"call", "dry"}
    /\ trace[Len(trace)] = Log("msg", "operation cancelled")
    /\ world = before
    /\ exitCode = 0

C8_Witness ==
  /\ Declined /\ pc = "done" /\ exitCode = 0
  /\ container = "running" /\ dataDir /\ ~DRY_RUN

----------------------------------------------------------------------------
(* C9 - attach *)

\* C9: attach to an existing container: observed running, it issues exactly one
\* docker exec and no docker start; observed stopped with auto-start (AUTO_START=1
\* or --start), it issues docker start first and docker exec only after that start
\* succeeded; observed stopped without auto-start, it exits non-zero having issued
\* neither.
C9_Attach ==
  action = "attach" =>
    /\ \A i \in DOMAIN trace :
         (IssuedAt(i, "docker exec") /\ obs.running = "no") =>
           \E j \in 1..(i - 1) : IssuedAt(j, "docker start") /\ trace[j].ok
    /\ (pc = "done" /\ obs.exists = "yes") =>
         /\ obs.running = "yes" => Verbs(Issued) = <<"docker exec">>
         /\ (obs.running = "no" /\ (env.AUTO_START = "1" \/ Has("--start"))) =>
              \/ Verbs(Issued) = <<"docker start", "docker exec">> /\ Issued[1].ok
              \/ Verbs(Issued) = <<"docker start">> /\ ~Issued[1].ok /\ exitCode # 0
         /\ (obs.running = "no" /\ ~(env.AUTO_START = "1" \/ Has("--start"))) =>
              /\ exitCode # 0
              /\ ~Mentions("docker start") /\ ~Mentions("docker exec")

C9_Witness ==
  /\ action = "attach" /\ pc = "done" /\ ~DRY_RUN
  /\ obs.running = "no" /\ args = <<"--start">>
  /\ Verbs(Issued) = <<"docker start", "docker exec">>
  /\ Issued[1].ok /\ Issued[2].ok /\ exitCode = 0

----------------------------------------------------------------------------
(* C10 - the daemon starter's budget *)

DaemonBudget ==
  /\ probes = attempts
  /\ attempts \in 0..maxAttempts
  /\ dpc = "poll" => (attempts < 90 /\ ~daemonUp)
  /\ dpc = "TIMED_OUT" => (attempts = 90 /\ probes = 90 /\ ~daemonUp)
  /\ dpc = "READY" => daemonUp
  /\ dpc = "RETURNED" => DRY_RUN

\* C10: with the application installed, the launch succeeded and no dry-run, a
\* starter whose probe never succeeds ends in the start-timeout failure and never
\* returns normally; it does so on the 90th poll tick: not before the 90th probe of
\* the loop, and no 91st tick or probe follows.
C10_Timeout ==
  /\ []DaemonBudget
  /\ (dpc = "poll") ~> (daemonUp \/ dpc = "TIMED_OUT")

C10_Witness ==
  /\ dpc = "TIMED_OUT" /\ attempts = 90 /\ probes = 90
  /\ ~daemonUp /\ host.app /\ ~DRY_RUN
  /\ trace[Len(trace)] = Log("err", "Docker Desktop didn't start within 90 seconds")

----------------------------------------------------------------------------
(* C11, C12 - the daemon starter's short cuts *)

\* the daemon answered when the starter was called
UpAtCall == before[4]

\* C11: when the first liveness probe succeeds the starter goes straight to READY:
\* it never looks for the application, never issues `open`, makes no poll tick
\* (no sleep, no further probe) and returns normally.
C11_ReadyAtOnce ==
  UpAtCall =>
    /\ dpc \in {"entry", "READY"}
    /\ attempts = 0 /\ probes = 0
    /\ ~Mentions("open")
    /\ dpc = "READY" => trace = <<Log("msg", "docker is running")>>

C11_Witness ==
  /\ UpAtCall /\ dpc = "READY" /\ host.app /\ ~DRY_RUN
  /\ trace = <<Log("msg", "docker is running")>>

\* C12: under DRY_RUN, when the first probe reports not ready, the starter says
\* what it would have launched and returns normally: it never looks for the
\* application, never issues `open` and never enters the polling loop.
C12_DryRunReturns ==
  (DRY_RUN /\ ~UpAtCall) =>
    /\ dpc \in {"entry", "RETURNED"}
    /\ attempts = 0 /\ probes = 0
    /\ ~Mentions("open")
    /\ dpc = "RETURNED" =>
         trace = <<Log("msg", "docker is not running"),
                   Log("msg", "DRY_RUN: would open Docker Desktop here")>>

C12_Witness ==
  /\ DRY_RUN /\ ~UpAtCall /\ dpc = "RETURNED" /\ host.app
  /\ ~daemonUp /\ attempts = 0

----------------------------------------------------------------------------
(* C13 - the name probes: `docker ps [-a] --format "{{.Names}}" | grep -x NAME` *)

MaxNameLen == 2
MaxListed == 1

\* the characters names are written with here: a letter, a digit and the dot
NameChars == {"w", "2", "."}

\* /^[a-zA-Z0-9][a-zA-Z0-9_.-]*$/ : a letter or digit first, then letters, digits,
\* underscores, dots and dashes
validateContainerName(n) ==
  /\ Len(n) >= 1
  /\ n[1] \in NameChars \ {"."}
  /\ \A i \in 2..Len(n) : n[i] \in NameChars

AcceptedNames ==
  { n \in UNION { [1..k -> NameChars] : k \in 1..MaxNameLen } : validateContainerName(n) }

\* grep reads its argument as a basic regular expression: of the characters of a
\* name only the dot is special and stands for any one character; with -x the
\* pattern has to cover the whole line
LineMatches(pattern, line) ==
  /\ Len(pattern) = Len(line)
  /\ \A i \in 1..Len(line) : pattern[i] = "." \/ pattern[i] = line[i]

\* grep exits 0 when some line of the listing matches
GrepX(pattern, lines) == \E line \in lines : LineMatches(pattern, line)

InitProbe ==
  /\ container = "absent" /\ dataDir = FALSE
  /\ dockerInstalled = TRUE /\ daemonUp = TRUE
  /\ host = NoHost /\ action = "none" /\ env = NoEnv /\ args = <<>>
  /\ before = <<"absent", FALSE, TRUE, TRUE>>
  /\ pc = "idle" /\ exitCode = 0 /\ trace = <<>> /\ obs = NoObs
  /\ todo = <<>> /\ dockerBin = "none" /\ ubuntuRoot = "none"
  /\ dpc = "idle" /\ attempts = 0 /\ probes = 0
  /\ NoStore /\ NoWatch
  /\ cname \in AcceptedNames
  /\ \E a \in { x \in SUBSET AcceptedNames : Cardinality(x) <= MaxListed } :
       \E r \in SUBSET a : listing = [all |-> a, running |-> r]
  /\ found = [exists |-> "unknown", running |-> "unknown"]
  /\ NoReply

ProbeExists ==
  /\ found.exists = "unknown"
  /\ found' = [found EXCEPT !.exists = Seen(GrepX(cname, listing.all))]
  /\ UNCHANGED <<lifecycle, cname, listing, reply, ret, store, watch>>

ProbeRunning ==
  /\ found.running = "unknown"
  /\ found' = [found EXCEPT !.running = Seen(GrepX(cname, listing.running))]
  /\ UNCHANGED <<lifecycle, cname, listing, reply, ret, store, watch>>

NextProbe == ProbeExists \/ ProbeRunning

SpecProbe == InitProbe /\ [][NextProbe]_vars

\* C13: for every accepted name and every set of names the engine knows, the
\* existence probe answers yes exactly when the name is one of all the container
\* names, and the running probe exactly when it is one of the running names: the
\* name is compared as a whole string, and a name that is only a prefix, a suffix
\* or a pattern variant of a listed name never matches.
C13_ExactMatch ==
  /\ found.exists # "unknown" => (found.exists = "yes" <=> cname \in listing.all)
  /\ found.running # "unknown" => (found.running = "yes" <=> cname \in listing.running)

\* the name w. is answered for by the container w2
C13_PatternMatches ==
  /\ cname = <<"w", ".">>
  /\ listing = [all |-> {<<"w", "2">>}, running |-> {<<"w", "2">>}]
  /\ found = [exists |-> "yes", running |-> "yes"]

\* what does hold: a listed name is always found, and what is found has a listed
\* name of the same length, so that no proper prefix or suffix ever matches
WholeLineOnly ==
  /\ (found.exists # "unknown" /\ cname \in listing.all) => found.exists = "yes"
  /\ found.exists = "yes" => \E l \in listing.all : Len(l) = Len(cname)
  /\ (found.exists # "unknown" /\ \A i \in 1..Len(cname) : cname[i] # ".")
        => (found.exists = "yes" <=> cname \in listing.all)

----------------------------------------------------------------------------
(* C14 - the exit code of status *)

\* a status query that ran to its end: not the usage text, not a dry run
StatusQueried ==
  /\ action = "status" /\ pc = "done"
  /\ ~DRY_RUN /\ ~Has("--help")

\* C14: a status query (no watch mode, no dry run) ends with 2 when the daemon was
\* seen unreachable, whatever was seen of the container, otherwise with 3 when the
\* container was seen absent, otherwise with 1 when it exists but is stopped,
\* otherwise with 0; it ends with 0 only when the container is running, and the
\* output then says "Running".
C14_StatusCodes ==
  StatusQueried =>
    /\ obs.docker = "no" => exitCode = 2
    /\ (obs.docker = "yes" /\ obs.exists = "no") => exitCode = 3
    /\ (obs.docker = "yes" /\ obs.exists = "yes" /\ obs.running = "no") => exitCode = 1
    /\ (obs.docker = "yes" /\ obs.exists = "yes" /\ obs.running = "yes") => exitCode = 0
    /\ exitCode \in {0, 1, 2, 3}
    /\ exitCode = 0 =>
         /\ container = "running" /\ obs.running = "yes"
         /\ trace[Len(trace)] = Log("out", "Running")

\* the daemon probe ran out of time while the listing showed the running container
C14_Witness ==
  /\ StatusQueried /\ exitCode = 2
  /\ obs = [exists |-> "yes", running |-> "yes", docker |-> "no"]

----------------------------------------------------------------------------
(* The configuration manager: ConfigManager over ~/.ubuntu-manager.json *)

\* a JSON object is a function from the keys it carries to their values

Fields == {"containerName", "dataPath", "autoStart", "defaultVolumes", "preferences"}
PrefFields == {"showTimestamps", "verboseLogging", "autoCleanup"}

\* { ...a, ...b }: the keys of both, b's value where b has the key
Spread(a, b) ==
  [k \in DOMAIN a \cup DOMAIN b |-> IF k \in DOMAIN b THEN b[k] ELSE a[k]]

Only(obj, keys) == [k \in keys |-> obj[k]]

\* utils.ts getDefaultConfig: the defaults, with the environment's overrides
getDefaultConfig(e) ==
  [containerName |-> IF Truthy(e.CONTAINER_NAME) THEN e.CONTAINER_NAME ELSE "ubuntu",
   dataPath |-> IF Truthy(e.DATA_PATH) THEN e.DATA_PATH ELSE "~/ubuntu",
   autoStart |-> e.AUTO_START = "1",
   defaultVolumes |-> <<>>,
   preferences |-> [showTimestamps |-> TRUE, verboseLogging |-> FALSE,
                    autoCleanup |-> FALSE]]

\* ConfigManager.getDefaultConfig: the built-in defaults, the environment not read
BuiltInDefaults ==
  [containerName |-> "ubuntu",
   dataPath |-> "~/ubuntu",
   autoStart |-> FALSE,
   defaultVolumes |-> <<>>,
   preferences |-> [showTimestamps |-> TRUE, verboseLogging |-> FALSE,
                    autoCleanup |-> FALSE]]

\* JSON.stringify(config, null, 2) as the content of a file, and JSON.parse back
Stringify(c) == [kind |-> "json", obj |-> c]
Parses(f) == f.kind = "json"
Parse(f) == f.obj

loadConfigSyncBuiltIn(f, e) ==
  IF Parses(f) THEN Spread(getDefaultConfig(e), Parse(f)) ELSE BuiltInDefaults

\* readFileSync or JSON.parse throwing leaves the defaults
loadConfigSync(f, e) ==
  IF Parses(f) THEN Spread(getDefaultConfig(e), Parse(f)) ELSE getDefaultConfig(e)

\* Bun.write either replaces the content or throws; saveConfig only warns
saveConfig(c, ok) == IF ok THEN Stringify(c) ELSE file

MaxOps == 3

\* the record of an operation: what was asked, whether it threw, the file and the
\* in-memory copy it started from, and how many operations there have been
Did(op, arg, threw) ==
  [op |-> op, arg |-> arg, threw |-> threw, file |-> file, config |-> config,
   n |-> last.n + 1]

\* hand-written or earlier-saved contents of the file
SavedObjects ==
  { Only(full, keys) :
      full \in { [containerName |-> "dev", dataPath |-> "/data", autoStart |-> TRUE,
                  defaultVolumes |-> v, preferences |-> Only(pr, pk)] :
                   v \in {<<"/a">>, <<"/a", "/b">>},
                   pr \in {[showTimestamps |-> FALSE, verboseLogging |-> TRUE,
                            autoCleanup |-> TRUE]},
                   pk \in {{}, {"verboseLogging"}, PrefFields} },
      keys \in {{}, {"containerName"}, {"preferences"}, {"defaultVolumes"},
                {"autoStart", "preferences"}, Fields} }

InitConfig ==
  /\ container = "absent" /\ dataDir = FALSE
  /\ dockerInstalled = TRUE /\ daemonUp = TRUE
  /\ host = NoHost /\ action = "config" /\ args = <<>>
  /\ env \in {[NoEnv EXCEPT !.AUTO_START = s] : s \in {"", "1"}}
  /\ before = <<"absent", FALSE, TRUE, TRUE>>
  /\ pc = "idle" /\ exitCode = 0 /\ trace = <<>> /\ obs = NoObs
  /\ todo = <<>> /\ dockerBin = "none" /\ ubuntuRoot = "none"
  /\ dpc = "idle" /\ attempts = 0 /\ probes = 0
  /\ NoProbe /\ NoWatch
  /\ file \in {NoFile, [kind |-> "invalid", obj |-> NoObject]}
               \cup {Stringify(o) : o \in SavedObjects}
  /\ config = loadConfigSync(file, env)
  /\ backupFile = NoFile
  /\ last = [op |-> "load", arg |-> "", threw |-> FALSE, file |-> file,
             config |-> config, n |-> 0]

\* new ConfigManager() in the next process
Construct ==
  /\ config' = loadConfigSync(file, env)
  /\ last' = Did("load", "", FALSE)
  /\ UNCHANGED <<lifecycle, watch, probe, file, backupFile>>

\* update: the in-memory copy first, then the file
update(updates, ok) ==
  /\ config' = Spread(config, updates)
  /\ file' = saveConfig(config', ok)
  /\ UNCHANGED <<lifecycle, watch, probe, backupFile>>

setContainerName ==
  \E name \in {"dev", "web"}, ok \in BOOLEAN :
    /\ update([containerName |-> name], ok)
    /\ last' = Did("setContainerName", name, FALSE)

toggleAutoStart ==
  \E ok \in BOOLEAN :
    /\ update([autoStart |-> ~config.autoStart], ok)
    /\ last' = Did("toggleAutoStart", "", FALSE)

\* Array.prototype.includes
Listed(seq, v) == \E i \in DOMAIN seq : seq[i] = v

addDefaultVolumeUnchecked ==
  \E volume \in {"/a", "/b"}, ok \in BOOLEAN :
    /\ update([defaultVolumes |-> Append(config.defaultVolumes, volume)], ok)
    /\ last' = Did("addDefaultVolume", volume, FALSE)

addDefaultVolume ==
  \E volume \in {"/a", "/b"}, ok \in BOOLEAN :
    /\ IF ~Listed(config.defaultVolumes, volume)
       THEN update([defaultVolumes |-> Append(config.defaultVolumes, volume)], ok)
       ELSE UNCHANGED <<lifecycle, watch, probe, file, config, backupFile>>
    /\ last' = Did("addDefaultVolume", volume, FALSE)

removeDefaultVolume ==
  \E volume \in {"/a", "/b"}, ok \in BOOLEAN :
    LET updatedVolumes == SelectSeq(config.defaultVolumes, LAMBDA v : v # volume) IN
    /\ IF Len(updatedVolumes) # Len(config.defaultVolumes)
       THEN update([defaultVolumes |-> updatedVolumes], ok)
       ELSE UNCHANGED <<lifecycle, watch, probe, file, config, backupFile>>
    /\ last' = Did("removeDefaultVolume", volume, FALSE)

resetDiscardsFirst ==
  \E backedUp \in BOOLEAN, ok \in BOOLEAN :
    /\ config' = BuiltInDefaults
    /\ file' = saveConfig(config', ok)
    /\ backupFile' = IF file.kind # "missing" /\ backedUp THEN Stringify(config)
                     ELSE backupFile
    /\ last' = Did("reset", "", file.kind # "missing" /\ ~backedUp)
    /\ UNCHANGED <<lifecycle, watch, probe>>

\* reset: the backup (when there is a file), then the built-in defaults in memory
\* and on disk; a throwing backup write ends it before anything else is touched
reset ==
  \E backedUp \in BOOLEAN, ok \in BOOLEAN :
    IF file.kind # "missing" /\ ~backedUp
    THEN /\ last' = Did("reset", "", TRUE)
         /\ UNCHANGED <<lifecycle, watch, probe, file, config, backupFile>>
    ELSE /\ backupFile' = IF file.kind # "missing" THEN Stringify(config) ELSE backupFile
         /\ config' = BuiltInDefaults
         /\ file' = saveConfig(config', ok)
         /\ last' = Did("reset", "", FALSE)
         /\ UNCHANGED <<lifecycle, watch, probe>>

NextConfig ==
  /\ last.n < MaxOps
  /\ \/ Construct
     \/ setContainerName
     \/ toggleAutoStart
     \/ addDefaultVolume
     \/ removeDefaultVolume
     \/ reset

SpecConfig == InitConfig /\ [][NextConfig]_vars

----------------------------------------------------------------------------
(* C15 - what a load yields *)

Loaded == last.op = "load"

\* every field of ManagerConfig is there, every field of preferences too
Populated(c) ==
  /\ DOMAIN c = Fields
  /\ DOMAIN c.preferences = PrefFields

\* a field the file does not carry has its default value
TopLevelDefaults ==
  \A f \in Fields :
    (Parses(file) /\ f \in DOMAIN Parse(file))
      \/ (f \in DOMAIN config /\ config[f] = getDefaultConfig(env)[f])

\* a preference the file does not carry has its default value
PreferenceDefaults ==
  \A f \in PrefFields :
    (Parses(file) /\ "preferences" \in DOMAIN Parse(file)
       /\ f \in DOMAIN Parse(file).preferences)
      \/ (f \in DOMAIN config.preferences
            /\ config.preferences[f] = getDefaultConfig(env).preferences[f])

\* C15: for every content of the persisted file a load yields a fully populated
\* configuration: every field the file does not carry has its default value, and so
\* has every single preference the file's preferences object does not carry (the
\* file is merged field by field, as a sparse overlay).
C15_LoadPopulates ==
  Loaded => (Populated(config) /\ TopLevelDefaults /\ PreferenceDefaults)

\* the file carries one preference; the loaded configuration has no other
C15_SparsePreferences ==
  /\ Loaded /\ last.n > 0 /\ Parses(file) /\ "preferences" \in DOMAIN Parse(file)
  /\ DOMAIN Parse(file).preferences = {"verboseLogging"}
  /\ DOMAIN config.preferences = {"verboseLogging"}

\* what does hold: the merge is field by field at the top level
LoadMergesTopLevel == Loaded => (DOMAIN config = Fields /\ TopLevelDefaults)

----------------------------------------------------------------------------
(* C16, C17 - update *)

\* the last operation went through update
Updated ==
  \/ last.op \in {"setContainerName", "toggleAutoStart"}
  \/ last.op \in {"addDefaultVolume", "removeDefaultVolume"} /\ config # last.config

\* what the next process would load is what this one holds
InSync == loadConfigSync(file, env) = config

\* C16: update is atomic: after any update, whether the write to disk succeeded or
\* failed, the in-memory configuration and the persisted file describe the same
\* configuration.
C16_UpdateAtomic == Updated => InSync

\* the name was changed in memory, the write failed, the file still has the old one
C16_OutOfSync ==
  /\ last.op = "setContainerName" /\ last.arg = "web"
  /\ config.containerName = "web"
  /\ file = last.file
  /\ loadConfigSync(file, env).containerName = "ubuntu"

\* what does hold: the file is either the whole new configuration or untouched, and
\* the in-memory copy is always the new one
UpdateWritesAllOrNothing ==
  Updated =>
    /\ file = Stringify(config) \/ file = last.file
    /\ file = Stringify(config) => InSync

\* a load after update({containerName: x}) gives x and leaves the other fields
RoundTrip ==
  LET loaded == loadConfigSync(file, env) IN
  /\ loaded.containerName = last.arg
  /\ \A f \in Fields \ {"containerName"} : loaded[f] = last.config[f]

\* C17: a load after update({containerName: x}) returns containerName x and every
\* other field with the value it had before the update.
C17_RoundTrip == last.op = "setContainerName" => RoundTrip

\* the name dev was set, and a load still does not give it
C17_NameLost ==
  /\ last.op = "setContainerName" /\ last.arg = "dev"
  /\ config.containerName = "dev"
  /\ loadConfigSync(file, env).containerName # "dev"

\* what does hold: the round trip, whenever the write went through
RoundTripWhenWritten ==
  (last.op = "setContainerName" /\ file = Stringify(config)) => RoundTrip

----------------------------------------------------------------------------
(* C18, C19 - reset *)

\* a reset that found a file and returned normally
ResetDone == last.op = "reset" /\ ~last.threw /\ last.file.kind # "missing"

\* C18: a reset that finds a config file leaves a .backup sibling identical to what
\* the config file held before the reset, whatever that was (a sparse or hand-edited
\* file included), and afterwards the live file holds the built-in defaults.
C18_ResetBacksUpFile ==
  ResetDone =>
    /\ backupFile = last.file
    /\ file = Stringify(BuiltInDefaults)

\* every write went through, and the backup of the one-field file has five fields
C18_BackupDiffers ==
  /\ ResetDone
  /\ last.file = Stringify([containerName |-> "dev"])
  /\ backupFile = Stringify(last.config) /\ DOMAIN Parse(backupFile) = Fields
  /\ file = Stringify(BuiltInDefaults)

\* what does hold: the backup is the in-memory configuration as it was, the
\* in-memory configuration is the built-in defaults, and the live file holds the
\* defaults unless its write failed
ResetBacksUpMemory ==
  ResetDone =>
    /\ backupFile = Stringify(last.config)
    /\ config = BuiltInDefaults
    /\ file = Stringify(BuiltInDefaults) \/ file = last.file

\* a reset that threw
ResetFailed == last.op = "reset" /\ last.threw

\* C19: when the backup copy cannot be written the reset fails with an error and
\* the prior configuration is not discarded: the live file and the in-memory
\* configuration are both what they were (and a reset that did go on to the
\* defaults has its backup in place).
C19_FailedResetKeeps ==
  /\ ResetFailed => (file = last.file /\ config = last.config)
  /\ ResetDone => backupFile = Stringify(last.config)

C19_Witness ==
  /\ ResetFailed
  /\ Parses(file) /\ file = last.file
  /\ config.containerName = "dev" /\ config = last.config

----------------------------------------------------------------------------
(* C20 - the default volumes *)

NoDuplicates(seq) == \A i, j \in DOMAIN seq : seq[i] = seq[j] => i = j

Elements(seq) == { seq[i] : i \in DOMAIN seq }

\* what is in both lists comes in the same order in both
SameOrder(old, new) ==
  \A i, j \in DOMAIN old, k, l \in DOMAIN new :
    (old[i] = new[k] /\ old[j] = new[l] /\ i < j) => k < l

VolumesWere == last.config.defaultVolumes
VolumesAre == config.defaultVolumes

\* C20: starting from a list without duplicates, after any sequence of
\* addDefaultVolume and removeDefaultVolume the list has no duplicates and keeps
\* the order of insertion; adding a value that is there and removing one that is
\* not change neither the in-memory configuration nor the file and raise no error.
C20_Volumes ==
  /\ NoDuplicates(VolumesAre)
  /\ last.op = "addDefaultVolume" =>
       /\ Elements(VolumesAre) = Elements(VolumesWere) \cup {last.arg}
       /\ SameOrder(VolumesWere, VolumesAre)
       /\ ~Listed(VolumesWere, last.arg) => VolumesAre[Len(VolumesAre)] = last.arg
       /\ Listed(VolumesWere, last.arg) =>
            (config = last.config /\ file = last.file /\ ~last.threw)
  /\ last.op = "removeDefaultVolume" =>
       /\ Elements(VolumesAre) = Elements(VolumesWere) \ {last.arg}
       /\ SameOrder(VolumesWere, VolumesAre)
       /\ ~Listed(VolumesWere, last.arg) =>
            (config = last.config /\ file = last.file /\ ~last.threw)

\* /a was removed and added again, so it comes after /b; adding it once more
\* changes nothing
C20_Witness ==
  /\ last.op = "addDefaultVolume" /\ last.arg = "/a"
  /\ VolumesWere = <<"/b", "/a">> /\ VolumesAre = <<"/b", "/a">>
  /\ file = last.file /\ last.n >= 3

----------------------------------------------------------------------------
(* C21 - failures of the destructive calls *)

\* the i-th event is a destructive call that ended with a non-zero exit
FailedDestructive(i) ==
  /\ trace[i].k = "call" /\ ~trace[i].ok
  /\ trace[i].c \in {"docker stop", "docker kill", "docker rm", "docker start"}

\* a failed destructive call is never followed by a success message and, once the
\* action has ended, has been followed at once by an error or a warning
FailuresReported ==
  \A i \in DOMAIN trace :
    FailedDestructive(i) =>
      /\ i < Len(trace) => trace[i + 1].k # "success"
      /\ pc = "done" => (i < Len(trace) /\ trace[i + 1].k \in {"err", "warn"})

\* C21: for every destructive call of stop, delete, restart and update (docker
\* stop, docker kill, docker rm, and the docker start that completes a restart) a
\* non-zero exit is reported to the user as a failure, and a failed call is never
\* followed by the success message of its step.
C21_FailuresReported ==
  action \in {"stop", "delete", "restart", "update"} => FailuresReported

\* restart: the stop failed and "Container stopped" was printed after it
C21_SuccessAfterFailure ==
  /\ action = "restart" /\ pc = "done" /\ exitCode = 0
  /\ \E i \in DOMAIN trace :
       /\ FailedDestructive(i) /\ trace[i].c = "docker stop"
       /\ i < Len(trace) /\ trace[i + 1] = Log("success", "container stopped")

\* what does hold: stop and delete report every failure
StopDeleteReportFailures == action \in {"stop", "delete"} => FailuresReported

----------------------------------------------------------------------------
(* C22 - getContainerStatus over every outcome of its listing *)

MaxOut == 3

\* the characters of a listing's output here: the letters of "Up", tab and blank
OutChars == {"U", "p", "\t", " "}
Texts == UNION { [1..k -> OutChars] : k \in 0..MaxOut }

\* the shell ran and exited, or the time limit won the race, or the spawn failed
Replies ==
  { [how |-> "exited", exitCode |-> c, stdout |-> t] : c \in {0, 1}, t \in Texts }
    \cup { [how |-> h, exitCode |-> 0, stdout |-> <<>>] : h \in {"timeout", "spawn"} }

\* safeExec with nothrow: a rejection becomes { exitCode: 1, stdout: '' }
safeExec(r) ==
  IF r.how = "exited"
  THEN [threw |-> FALSE, exitCode |-> r.exitCode, stdout |-> r.stdout]
  ELSE [threw |-> FALSE, exitCode |-> 1, stdout |-> <<>>]

\* String.prototype.trim
Trim(t) ==
  LET inked == { i \in DOMAIN t : t[i] \notin {" ", "\t"} } IN
  IF inked = {} THEN <<>>
  ELSE SubSeq(t, CHOOSE i \in inked : \A j \in inked : i <= j,
                 CHOOSE i \in inked : \A j \in inked : j <= i)

\* String.prototype.split('\t')
RECURSIVE SplitTabs(_, _)
SplitTabs(t, field) ==
  IF t = <<>> THEN <<field>>
  ELSE IF Head(t) = "\t" THEN <<field>> \o SplitTabs(Tail(t), <<>>)
  ELSE SplitTabs(Tail(t), Append(field, Head(t)))

\* String.prototype.toLowerCase
ToLower(t) == [i \in DOMAIN t |-> IF t[i] = "U" THEN "u" ELSE t[i]]

NotThere == [exists |-> FALSE, running |-> FALSE]

\* faulty variant: existence read off the number of columns of the line
ListedStatusByColumns(output) ==
  LET parts == SplitTabs(output, <<>>)
      named == <<"status", "created", "ports">>
  IN Spread([exists |-> Len(parts) >= 2,
             running |-> Includes(ToLower(parts[1]), <<"u", "p">>)],
            [k \in { named[i] : i \in 1..3 \cap DOMAIN parts } |->
               Trim(parts[CHOOSE i \in 1..3 : named[i] = k])])

\* the answer for a listing that printed a line: status, created, ports
ListedStatus(output) ==
  LET parts == SplitTabs(output, <<>>)
      named == <<"status", "created", "ports">>
  IN Spread([exists |-> TRUE,
             running |-> Includes(ToLower(parts[1]), <<"u", "p">>)],
            [k \in { named[i] : i \in 1..3 \cap DOMAIN parts } |->
               Trim(parts[CHOOSE i \in 1..3 : named[i] = k])])

ParseListingUnchecked(result) ==
  IF Trim(result.stdout) = <<>> THEN NotThere
  ELSE ListedStatus(Trim(result.stdout))

\* the body of getContainerStatus after the listing has come back
ParseListing(result) ==
  IF result.exitCode # 0 THEN NotThere
  ELSE IF Trim(result.stdout) = <<>> THEN NotThere
  ELSE ListedStatus(Trim(result.stdout))

\* getContainerStatus: anything thrown inside is caught and reads as not there
getContainerStatusOf(r) ==
  LET result == safeExec(r) IN
  [given |-> TRUE, threw |-> FALSE,
   value |-> IF result.threw THEN NotThere ELSE ParseListing(result)]

InitStatus ==
  /\ container = "absent" /\ dataDir = FALSE
  /\ dockerInstalled = TRUE /\ daemonUp = TRUE
  /\ host = NoHost /\ action = "none" /\ env = NoEnv /\ args = <<>>
  /\ before = <<"absent", FALSE, TRUE, TRUE>>
  /\ pc = "idle" /\ exitCode = 0 /\ trace = <<>> /\ obs = NoObs
  /\ todo = <<>> /\ dockerBin = "none" /\ ubuntuRoot = "none"
  /\ dpc = "idle" /\ attempts = 0 /\ probes = 0
  /\ cname = <<>>
  /\ listing = [all |-> {}, running |-> {}]
  /\ found = [exists |-> "unknown", running |-> "unknown"]
  /\ reply \in Replies
  /\ ret = [given |-> FALSE, threw |-> FALSE, value |-> NoObject]
  /\ NoStore /\ NoWatch

ProbeStatus ==
  /\ ~ret.given
  /\ ret' = getContainerStatusOf(reply)
  /\ UNCHANGED <<lifecycle, cname, listing, found, reply, store, watch>>

SpecStatus == InitStatus /\ [][ProbeStatus]_vars

\* C22: getContainerStatus never aborts its caller: whether the listing exits
\* non-zero, runs out of time, cannot be spawned or prints nothing, the answer is
\* {exists: false, running: false} and nothing is thrown.
C22_NeverAborts ==
  ret.given =>
    /\ ~ret.threw
    /\ (reply.how # "exited" \/ reply.exitCode # 0 \/ reply.stdout = <<>>)
         => ret.value = [exists |-> FALSE, running |-> FALSE]

\* the listing said "Up" and exited non-zero
C22_Witness ==
  /\ ret.given /\ ~ret.threw
  /\ reply = [how |-> "exited", exitCode |-> 1, stdout |-> <<"U", "p">>]
  /\ ret.value = [exists |-> FALSE, running |-> FALSE]

----------------------------------------------------------------------------
(* C23 - loading without a usable file *)

\* C23: loading when the persisted file is missing or is not valid JSON is not an
\* error: the load gives exactly the defaults with the environment's overrides,
\* throws nothing and leaves the file as it was.
C23_LoadFallsBack ==
  (Loaded /\ ~Parses(file)) =>
    /\ config = getDefaultConfig(env)
    /\ ~last.threw
    /\ file = last.file

\* an unparsable file, AUTO_START=1 in the environment
C23_Witness ==
  /\ Loaded /\ last.n > 0 /\ ~last.threw
  /\ file.kind = "invalid" /\ file = last.file
  /\ env.AUTO_START = "1" /\ config.autoStart

----------------------------------------------------------------------------
(* C24 - which docker binary setup resolves *)

\* the search order, and whether a place of it holds a binary
SearchOrder == <<"docker", "/usr/local/bin/docker", "/opt/homebrew/bin/docker",
                 "/Applications/Docker.app/Contents/Resources/bin/docker">>
Holds(place) == IF place = "docker" THEN dockerInstalled ELSE place \in host.files
FirstHit(i) == Holds(SearchOrder[i]) /\ \A j \in 1..(i - 1) : ~Holds(SearchOrder[j])

\* setup has been through the resolution
BinStepDone == action = "setup" /\ ubuntuRoot # "" /\ pc \notin {"setup", "setup_bin"}
BinResolved == BinStepDone /\ dockerBin # ""
BinFailed == BinStepDone /\ dockerBin = ""

\* C24: the resolution of the engine binary is deterministic and in strict order:
\* with a preferred path the result is that path when it exists and an immediate
\* failure otherwise, without any search; without one it is the first hit among
\* the binary on the search path, /usr/local/bin/docker, /opt/homebrew/bin/docker
\* and the binary inside Docker.app, nothing being looked at after a hit; it
\* fails only when none of them exists.
C24_Resolution ==
  LET prefer == SetupArgs.dockerBinArg
      looked == DockerBinLooksAt(prefer, dockerInstalled, host.files)
  IN
  /\ (BinStepDone /\ Truthy(prefer)) =>
       /\ looked = <<prefer>>
       /\ IF prefer \in host.files THEN dockerBin = prefer
          ELSE BinFailed /\ exitCode = 1 /\ pc = "done"
  /\ (BinStepDone /\ ~Truthy(prefer)) =>
       /\ \A i \in DOMAIN SearchOrder :
            FirstHit(i) => (dockerBin = SearchOrder[i] /\ looked = SubSeq(SearchOrder, 1, i))
       /\ BinFailed <=> \A i \in DOMAIN SearchOrder : ~Holds(SearchOrder[i])
       /\ BinFailed => (exitCode = 1 /\ pc = "done")

\* docker is on the search path, the preferred path does not exist: no fallback
C24_Witness ==
  /\ BinFailed /\ dockerInstalled
  /\ SetupArgs.dockerBinArg = "/custom/docker" /\ host.files = {}
  /\ exitCode = 1 /\ pc = "done"

\* the second candidate is the first that exists
C24_SecondCandidate ==
  /\ BinResolved /\ ~dockerInstalled
  /\ dockerBin = "/opt/homebrew/bin/docker"
  /\ "/Applications/Docker.app/Contents/Resources/bin/docker" \in host.files

----------------------------------------------------------------------------
(* status --watch: the first display, the 5 s interval, the SIGINT handler *)

MaxTicks == 6
MaxInFlight == 3

InitWatch ==
  /\ container = "absent" /\ dataDir = FALSE
  /\ dockerInstalled = TRUE /\ daemonUp = TRUE
  /\ host = NoHost /\ action = "status" /\ env = NoEnv
  /\ args \in {<<"--watch">>, <<"--watch", "--compact">>}
  /\ before = <<"absent", FALSE, TRUE, TRUE>>
  /\ pc = "idle" /\ exitCode = 0 /\ trace = <<>> /\ obs = NoObs
  /\ todo = <<>> /\ dockerBin = "none" /\ ubuntuRoot = "none"
  /\ dpc = "idle" /\ attempts = 0 /\ probes = 0
  /\ NoProbe /\ NoStore
  \* main is at `await watchStatus()`: no interval and no handler yet
  /\ watch = [at |-> "first", timer |-> FALSE, handler |-> FALSE, inflight |-> 1,
              ticks |-> 0, shown |-> "nothing", code |-> -1]

WatchAlive == watch.at \in {"first", "armed"}

\* a watchStatus call comes to its end: the display, or "Watch error"; when it is
\* the awaited first one, main goes on to setInterval and process.on('SIGINT')
WatchRefreshDone ==
  /\ WatchAlive /\ watch.inflight > 0
  /\ \E ok \in BOOLEAN :
       watch' = [watch EXCEPT
                   !.inflight = @ - 1,
                   !.shown = IF ~ok THEN "error"
                             ELSE IF Has("--compact") THEN "compact" ELSE "detailed",
                   !.at = "armed",
                   !.timer = TRUE,
                   !.handler = TRUE]
  /\ UNCHANGED <<lifecycle, probe, store>>

\* the interval fires: watchStatus is called, whatever the earlier calls are doing
WatchTick ==
  /\ WatchAlive /\ watch.timer
  /\ watch.ticks < MaxTicks /\ watch.inflight < MaxInFlight
  /\ watch' = [watch EXCEPT !.inflight = @ + 1, !.ticks = @ + 1]
  /\ UNCHANGED <<lifecycle, probe, store>>

\* Ctrl+C: the handler, when there is one, clears the interval and exits with 0;
\* without a handler the signal ends the process
WatchInterrupt ==
  /\ WatchAlive
  /\ watch' = IF watch.handler
              THEN [watch EXCEPT !.at = "exited", !.timer = FALSE, !.code = 0]
              ELSE [watch EXCEPT !.at = "killed", !.code = 130]
  /\ UNCHANGED <<lifecycle, probe, store>>

NextWatch == WatchRefreshDone \/ WatchTick \/ WatchInterrupt

SpecWatch == InitWatch /\ [][NextWatch]_vars

\* C25: in watch mode an interrupt always leads to the interval timer cleared and
\* the process exited with code 0, no refresh being started after it, also when a
\* refresh is in progress at the moment of the interrupt.
C25_InterruptExitsClean ==
  ~WatchAlive =>
    /\ ~watch.timer
    /\ watch.code = 0
    /\ ~ENABLED WatchTick

\* Ctrl+C while the first display is still being gathered
C25_KilledDuringFirst ==
  /\ watch.at = "killed" /\ watch.code = 130
  /\ ~watch.handler /\ watch.inflight = 1 /\ watch.ticks = 0

\* what does hold: once the handler is installed, also with refreshes in progress
InterruptCleanOnceArmed ==
  (~WatchAlive /\ watch.handler) =>
    /\ watch.at = "exited" /\ watch.code = 0
    /\ ~watch.timer /\ ~ENABLED WatchTick

----------------------------------------------------------------------------
(* C26, C27, C28 - the polling loop of the daemon starter *)

\* C26: in the polling loop the tick counter goes up by exactly one per poll, and
\* the loop ends at the first tick whose probe succeeds, returning normally: a
\* probe that succeeds on any tick from 1 to 90, the 90th included, gives READY
\* and never the timeout failure.
C26_PollCounts ==
  [][dpc = "poll" =>
       /\ attempts' = attempts + 1
       /\ attempts' \in 1..90
       /\ daemonUp' <=> dpc' = "READY"
       /\ ~daemonUp' => dpc' \in {"poll", "TIMED_OUT"}]_vars

\* the daemon answered on the 90th tick
C26_Witness ==
  /\ dpc = "READY" /\ attempts = 90 /\ probes = 90 /\ daemonUp
  /\ trace[Len(trace)] = Log("msg", "docker is running")

\* the `open -a Docker` calls in the output so far
Launches == { i \in DOMAIN trace : trace[i].k = "call" /\ trace[i].c = "open" }

\* C27: when the first probe reports not ready and there is no dry run: without the
\* application installed the starter fails fatally, having issued no launch and
\* made no poll; with it installed the launch is issued exactly once, before the
\* first poll tick, and never again while polling.
C27_LaunchOnce ==
  (~UpAtCall /\ ~DRY_RUN) =>
    /\ ~host.app =>
         /\ dpc \in {"entry", "check_app", "APP_MISSING"}
         /\ Launches = {} /\ attempts = 0 /\ probes = 0
    /\ dpc = "APP_MISSING" => trace[Len(trace)] = Log("err", "Docker Desktop not found")
    /\ Cardinality(Launches) <= 1
    /\ dpc \in {"poll", "READY", "TIMED_OUT", "OPEN_FAILED"} =>
         (host.app /\ Launches = {2})
    /\ attempts > 0 => (Launches = {2} /\ trace[2].ok)

C27_Witness ==
  /\ ~UpAtCall /\ ~DRY_RUN /\ ~host.app
  /\ dpc = "APP_MISSING" /\ Launches = {} /\ attempts = 0

\* the launch was issued once, and polling went on to its last tick
C27_LaunchedOnce ==
  /\ ~UpAtCall /\ ~DRY_RUN /\ host.app
  /\ dpc = "TIMED_OUT" /\ attempts = 90 /\ Launches = {2}

\* tick n has been made and its probe did not succeed
TickFailed(n) == attempts > n \/ (attempts = n /\ dpc \in {"poll", "TIMED_OUT"})

\* the progress notice of tick n is in the output
Noticed(n) ==
  \E i \in DOMAIN trace : trace[i].c = "still waiting" /\ trace[i].a = ToString(n)

\* the ending depends on the probes and the budget alone
EndingByProbes ==
  /\ dpc = "TIMED_OUT" <=> (attempts = 90 /\ ~daemonUp)
  /\ (dpc = "READY" /\ attempts > 0) => daemonUp
  /\ dpc = "poll" => (attempts < 90 /\ ~daemonUp)

\* C28 as stated: while polling, a progress notice is emitted on every tick whose
\* count is a multiple of 15 (15, 30, 45, 60, 75, 90) and that has not succeeded,
\* and emitting it never changes whether or when the loop ends in READY or
\* TIMED_OUT.
C28_NoticeEvery15 ==
  /\ \A n \in {15, 30, 45, 60, 75, 90} : TickFailed(n) => Noticed(n)
  /\ EndingByProbes

\* C28, amended: the notice is emitted on the failed ticks 15, 30, 45, 60 and 75
\* and on no other tick; on the 90th failed tick the timeout failure is reported in
\* its place; the notices never change whether or when the loop ends.
C28_NoticeBelowBudget ==
  /\ \A n \in 1..90 : Noticed(n) <=> (TickFailed(n) /\ n \in {15, 30, 45, 60, 75})
  /\ TickFailed(90) =>
       trace[Len(trace)] = Log("err", "Docker Desktop didn't start within 90 seconds")
  /\ EndingByProbes

\* the loop has timed out: five notices, none for the 90th tick
C28_Witness ==
  /\ dpc = "TIMED_OUT" /\ attempts = 90
  /\ Noticed(75) /\ ~Noticed(90)

----------------------------------------------------------------------------
(* C29 - start against an existing container *)

\* start has ended after seeing the container there
StartedExisting == action = "start" /\ pc = "done" /\ obs.exists = "yes"

\* C29: for an existing container start issues a docker start call exactly when it
\* sees the container not running, and then exactly one: `docker start` with
\* --detach and `docker start -ai` without; when the container is running and
\* --attach is not given it issues no engine call, prints the alternatives and
\* exits with zero; when it is running and --attach is given it issues a docker
\* exec of /bin/bash and no docker start.
C29_StartExisting ==
  /\ (StartedExisting /\ obs.running = "no") =>
       Verbs(Issued) = IF Has("--detach") \/ Has("-d") THEN <<"docker start">>
                       ELSE <<"docker start -ai">>
  /\ (StartedExisting /\ obs.running = "yes" /\ ~(Has("--attach") \/ Has("-a"))) =>
       /\ ~\E i \in DOMAIN trace : trace[i].k \in {"call", "dry"}
       /\ trace[Len(trace)] = Log("msg", "alternatives")
       /\ exitCode = 0
  /\ (StartedExisting /\ obs.running = "yes" /\ (Has("--attach") \/ Has("-a"))) =>
       /\ Verbs(Issued) = <<"docker exec">>
       /\ Issued[1].a = "-it /bin/bash"
  /\ action = "start" => Len(Issued) <= 1

\* --attach and --detach together, the container stopped: one `docker start`
C29_Witness ==
  /\ StartedExisting /\ obs.running = "no" /\ ~DRY_RUN
  /\ Has("--attach") /\ Has("--detach")
  /\ trace[1] = Call("docker start", "", TRUE) /\ exitCode = 0

----------------------------------------------------------------------------
(* C30 - attach against an absent container *)

\* attach has ended after seeing no container
AttachedAbsent == action = "attach" /\ pc = "done" /\ obs.exists = "no"

\* the "Quick fixes" lines (run setup, check the name, use status) are in the output
HintsPrinted == \E i \in DOMAIN trace : trace[i] = Log("msg", "quick fixes")

\* C30: when attach finds that the container does not exist, the remediation hints
\* (run setup, check the container name, use status) are printed before the
\* process exits with a non-zero status.
C30_HintsBeforeExit == AttachedAbsent => (HintsPrinted /\ exitCode # 0)

\* the error line is the last thing printed
C30_NoHints ==
  /\ AttachedAbsent /\ ~DRY_RUN /\ container = "absent"
  /\ exitCode = 1 /\ ~HintsPrinted
  /\ trace[Len(trace)] = Log("err", "does not exist")

\* what does hold: the error is reported, the exit status is 1, nothing was called
AttachAbsentFails ==
  AttachedAbsent =>
    /\ exitCode = 1
    /\ trace[Len(trace)] = Log("err", "does not exist")
    /\ ~\E i \in DOMAIN trace : trace[i].k \in {"call", "dry"}

----------------------------------------------------------------------------
(* C31 - no retry of a destructive call *)

\* how many times the invocation has executed the call c
Executed(c) == Cardinality({i \in DOMAIN trace : trace[i].k = "call" /\ trace[i].c = c})

\* no engine call of the trace was executed twice with the same arguments
NoCallRepeated ==
  \A i, j \in DOMAIN trace :
    (i < j /\ trace[i].k = "call" /\ trace[j].k = "call") =>
      <<trace[i].c, trace[i].a>> # <<trace[j].c, trace[j].a>>

\* C31: no destructive engine call is retried: in one invocation of stop, delete,
\* restart or update each of docker stop, docker kill, docker rm and docker start
\* is executed at most once whatever the engine answers; the only call that is
\* repeated is the daemon liveness probe, and a further probe is due only while
\* the last one reported the daemon not reachable.
C31_NoRetry ==
  /\ action \in {"stop", "delete", "restart", "update"} =>
       \A c \in {"docker stop", "docker kill", "docker rm", "docker start"} :
         Executed(c) <= 1
  /\ NoCallRepeated
  /\ dpc = "poll" => ~EngineReachable

\* delete: the stop failed, the removal failed after it, each was tried once
C31_Witness ==
  /\ action = "delete" /\ pc = "done" /\ exitCode = 1
  /\ \E i, j \in DOMAIN trace :
       /\ i < j
       /\ trace[i] = Call("docker stop", "", FALSE)
       /\ trace[j] = Call("docker rm", "", FALSE)
  /\ Executed("docker stop") = 1 /\ Executed("docker rm") = 1

\* setup: the probe was repeated while the daemon was not reachable
C31_ProbeRepeated == action = "setup" /\ dpc = "poll" /\ probes >= 3

----------------------------------------------------------------------------
(* C32 - the pseudo-terminal of exec *)

\* the requested command is a shell: its program word is a shell
ShellInvocation == ExecArgs[1] \in {"/bin/bash", "bash", "sh"}

\* the i-th event is the docker exec of the exec action, executed or described
ExecIssuedAt(i) ==
  action = "exec" /\ trace[i].k \in {"call", "dry"} /\ trace[i].c = "docker exec"

\* the call carries -it
WithTTY(e) == e.a = "-it " \o Join(ExecArgs)

\* C32: the exec action attaches a pseudo-terminal (-it) if and only if the
\* requested command is an interactive shell invocation or --interactive was
\* passed; a one-shot command whose text merely contains "sh" or "bash" inside
\* another word runs without a pseudo-terminal.
C32_TTYIffShell ==
  \A i \in DOMAIN trace :
    ExecIssuedAt(i) => (WithTTY(trace[i]) <=> (ShellInvocation \/ Has("--interactive")))

\* `exec git push` ran with a pseudo-terminal
C32_PushGetsTTY ==
  /\ action = "exec" /\ args = <<"git", "push">> /\ ~DRY_RUN /\ pc = "done"
  /\ \E i \in DOMAIN trace :
       trace[i].k = "call" /\ trace[i].c = "docker exec" /\ trace[i].a = "-it git push"

\* what does hold: a shell or --interactive gets the pseudo-terminal, and a
\* command without the letters "sh" does not
ExecTTYOneWay ==
  \A i \in DOMAIN trace :
    ExecIssuedAt(i) =>
      /\ (ShellInvocation \/ Has("--interactive")) => WithTTY(trace[i])
      /\ args \in {<<"ls">>, <<"whoami">>} => trace[i].a = Join(ExecArgs)

----------------------------------------------------------------------------
(* C33 - the container name the actions address *)

MaxInvocations == 2

\* const CONTAINER_NAME = process.env.CONTAINER_NAME || "ubuntu"
CONTAINER_NAME == IF Truthy(env.CONTAINER_NAME) THEN env.CONTAINER_NAME ELSE "ubuntu"

\* an invocation of action a worked on the container called name
Addresses(a, name) == [k |-> "address", c |-> a, a |-> name, ok |-> TRUE]

\* one installation: its environment and its configuration file, before any action
InitNames ==
  /\ container = "absent" /\ dataDir = FALSE
  /\ dockerInstalled = TRUE /\ daemonUp = TRUE
  /\ host = NoHost /\ action = "none" /\ args = <<>>
  /\ env \in {[NoEnv EXCEPT !.CONTAINER_NAME = n] : n \in {"", "dev", "work"}}
  /\ before = <<"absent", FALSE, TRUE, TRUE>>
  /\ pc = "idle" /\ exitCode = 0 /\ trace = <<>> /\ obs = NoObs
  /\ todo = <<>> /\ dockerBin = "none" /\ ubuntuRoot = "none"
  /\ dpc = "idle" /\ attempts = 0 /\ probes = 0
  /\ NoProbe /\ NoWatch
  /\ file \in {NoFile, [kind |-> "invalid", obj |-> NoObject]}
               \cup {Stringify(o) : o \in SavedObjects}
  /\ config = loadConfigSync(file, env)
  /\ backupFile = NoFile
  /\ last = [op |-> "load", arg |-> "", threw |-> FALSE, file |-> file,
             config |-> config, n |-> 0]

\* the stand-alone scripts: the module constant CONTAINER_NAME
AddressByEnvironment ==
  /\ Len(trace) < MaxInvocations
  /\ \E a \in {"start", "stop", "delete", "attach"} :
       trace' = Append(trace, Addresses(a, CONTAINER_NAME))
  /\ UNCHANGED <<world, inputs, pc, exitCode, obs, todo, setupVars, daemonVars>>

\* setup: const name = "ubuntu"
AddressBySetup ==
  /\ Len(trace) < MaxInvocations
  /\ trace' = Append(trace, Addresses("setup", "ubuntu"))
  /\ UNCHANGED <<world, inputs, pc, exitCode, obs, todo, setupVars, daemonVars>>

\* the advanced commands and status: new ConfigManager().current.containerName
AddressByConfig ==
  /\ Len(trace) < MaxInvocations
  /\ \E a \in {"restart", "exec", "logs", "inspect", "update", "status"} :
       trace' = Append(trace, Addresses(a, loadConfigSync(file, env).containerName))
  /\ UNCHANGED <<world, inputs, pc, exitCode, obs, todo, setupVars, daemonVars>>

NextNames == AddressByEnvironment \/ AddressBySetup \/ AddressByConfig

SpecNames == InitNames /\ [][NextNames]_vars

\* C33: for every environment and every persisted configuration file all the
\* actions of one installation address the same container name: the name used by
\* setup, start, stop, delete and attach equals the name used by restart, exec,
\* logs, inspect, update and status.
C33_OneName == \A i, j \in DOMAIN trace : trace[i].a = trace[j].a

\* CONTAINER_NAME=dev, no configuration file: setup worked on "ubuntu", start on "dev"
C33_SetupElsewhere ==
  /\ env.CONTAINER_NAME = "dev" /\ file = NoFile
  /\ trace = <<Addresses("setup", "ubuntu"), Addresses("start", "dev")>>

\* no CONTAINER_NAME, a saved containerName: stop and restart on different containers
C33_ConfigElsewhere ==
  /\ env.CONTAINER_NAME = "" /\ Parses(file) /\ "containerName" \in DOMAIN Parse(file)
  /\ trace = <<Addresses("stop", "ubuntu"), Addresses("restart", "dev")>>

\* which source of the name an action reads
Family(a) ==
  IF a = "setup" THEN "fixed"
  ELSE IF a \in {"start", "stop", "delete", "attach"} THEN "environment"
  ELSE "config"

\* what does hold: two actions differ only when they read the name from different
\* places and the environment or the file names a container
NamesAgreeWithinFamily ==
  \A i, j \in DOMAIN trace :
    trace[i].a # trace[j].a =>
      /\ Family(trace[i].c) # Family(trace[j].c)
      /\ \/ Truthy(env.CONTAINER_NAME)
         \/ Parses(file) /\ "containerName" \in DOMAIN Parse(file)

----------------------------------------------------------------------------
(* C34 - update: the pull before the removal *)

\* the j-th event is update's docker stop or docker rm
UpdateRemovesAt(j) ==
  action = "update" /\ trace[j].k = "call" /\ trace[j].c \in {"docker stop", "docker rm"}

\* C34: in a forced update without dry-run the existing container is stopped and
\* removed only if the preceding docker pull ubuntu:latest exited with code zero;
\* a failed or timed-out pull leaves the container in place.
C34_RemoveOnlyAfterPull ==
  \A j \in DOMAIN trace :
    UpdateRemovesAt(j) =>
      \E i \in 1..(j - 1) : trace[i] = Call("docker pull", "ubuntu:latest", TRUE)

\* the pull failed and the container was removed all the same
C34_RemovedAfterFailedPull ==
  /\ action = "update" /\ pc = "done" /\ exitCode = 0
  /\ before[1] = "stopped" /\ container = "absent"
  /\ \E i, j \in DOMAIN trace :
       /\ i < j
       /\ trace[i] = Call("docker pull", "ubuntu:latest", FALSE)
       /\ trace[j] = Call("docker rm", "", TRUE)

\* what does hold: the pull is attempted before the container is touched
UpdatePullsFirst ==
  \A j \in DOMAIN trace :
    UpdateRemovesAt(j) =>
      \E i \in 1..(j - 1) : trace[i].k = "call" /\ trace[i].c = "docker pull"

----------------------------------------------------------------------------
(* C35 - refreshes in flight in watch mode *)

\* C35: in watch mode at most one status refresh is in flight at any time: a
\* timer tick does not start a new refresh, with its own progress indicator,
\* while the previous refresh has not completed.
C35_OneRefreshInFlight == watch.inflight <= 1

\* two refreshes, each with its progress-indicator timer, run side by side
C35_Overlap ==
  /\ watch.at = "armed" /\ watch.timer
  /\ watch.inflight = 2 /\ watch.ticks = 2

\* what does hold: the first refresh is alone, and every further one was started
\* by a tick of the interval
RefreshesComeFromTicks ==
  /\ watch.at = "first" => watch.inflight = 1
  /\ watch.inflight <= watch.ticks + 1

----------------------------------------------------------------------------
(* C36 - how force mode is recognised *)

\* force mode as documented: FORCE=1, or --force where the action takes flags
ForceRequested ==
  env.FORCE = "1" \/ (action \in {"restart", "cleanup", "update"} /\ Has("--force"))

\* the invocation came to the point where force mode matters
ReachedGate ==
  /\ pc = "done"
  /\ CASE action = "delete"  -> \E i \in DOMAIN trace :
                                   trace[i].k \in {"ask", "auto"} /\ trace[i].c = "delete container"
       [] action = "restart" -> obs.running = "yes"
       [] action = "cleanup" -> TRUE
       [] action = "update"  -> obs.exists = "yes"
       [] OTHER              -> FALSE

\* the invocation went on as a forced one: no prompt, no "use --force" notice,
\* and for restart the kill in place of the stop
WentOnForced ==
  CASE action = "delete"  -> \E i \in DOMAIN trace : trace[i] = Auto("delete container")
    [] action = "restart" -> Mentions("docker kill")
    [] action = "cleanup" ->
         ~\E i \in DOMAIN trace : trace[i] = Log("warn", "use --force to skip confirmation")
    [] action = "update"  ->
         ~\E i \in DOMAIN trace : trace[i] = Log("info", "use --force to skip confirmation")
    [] OTHER              -> FALSE

\* C36: force mode is recognised the same way by every destructive action: delete,
\* restart, cleanup and update bypass the confirmation exactly when FORCE equals
\* "1" or, where accepted, --force is passed; any other value of FORCE, such as
\* "0", leaves the gate in place for all of them.
C36_ForceRecognised == ReachedGate => (WentOnForced <=> ForceRequested)

\* FORCE=0 update under dry-run: taken as forced, the pull is described
C36_ZeroForcesUpdate ==
  /\ action = "update" /\ env.FORCE = "0" /\ args = <<>> /\ DRY_RUN
  /\ ReachedGate /\ WentOnForced /\ ~ForceRequested
  /\ Describes("docker pull")

\* what does hold: delete, restart and cleanup read FORCE as documented
ForceRecognisedButUpdate == action # "update" => C36_ForceRecognised

----------------------------------------------------------------------------
(* C37 - delete: a failed docker rm *)

\* the i-th event is delete's docker rm ending with a non-zero exit
RemoveFailedAt(i) == action = "delete" /\ trace[i] = Call("docker rm", "", FALSE)

\* C37: if docker rm fails during delete the process exits with a non-zero status
\* at once: the data-directory prompt is never shown and the data directory is
\* never removed in that invocation.
C37_FailedRemoveExits ==
  \A i \in DOMAIN trace :
    RemoveFailedAt(i) =>
      /\ pc = "done" /\ exitCode = 1
      /\ Len(trace) = i + 1 /\ trace[i + 1] = Log("err", "failed to delete")
      /\ ~\E j \in DOMAIN trace : trace[j].c = "delete data directory"
      /\ ~Mentions("rm -rf")
      /\ dataDir = before[2]

\* the removal failed with the data directory there: no prompt, directory kept
C37_Witness ==
  /\ action = "delete" /\ pc = "done" /\ exitCode = 1
  /\ dataDir /\ before[2]
  /\ \E i \in DOMAIN trace : RemoveFailedAt(i)

----------------------------------------------------------------------------
(* C38 - the exit status of exec *)

\* exec has ended after running its command; i is the call
ExecRanAt(i) ==
  action = "exec" /\ pc = "done" /\ trace[i].k = "call" /\ trace[i].c = "docker exec"

\* C38: exec propagates the outcome of the command run in the container: it exits
\* with the command's own non-zero code whenever the command did not complete
\* successfully, a command ended by a signal (no exit code) included, and reports
\* success only when the command exited with code 0.
C38_OutcomePropagated ==
  \A i \in DOMAIN trace :
    ExecRanAt(i) =>
      /\ exitCode = 0 <=> trace[i].ok
      /\ ~trace[i].ok => (exitCode \in CloseCodes /\ Len(trace) = i + 1
                          /\ trace[i + 1] = Log("err", "command failed"))

\* the command was ended by a signal: no error line, exit status 0
C38_KilledReportsSuccess ==
  /\ action = "exec" /\ pc = "done" /\ exitCode = 0 /\ container = "running"
  /\ trace[Len(trace)] = Call("docker exec", ExecFlags, FALSE)

\* what does hold: a command that exited with a non-zero code ends exec with
\* that code and the error line, and a command that exited with 0 ends it with 0
ExitCodesPropagated ==
  \A i \in DOMAIN trace :
    ExecRanAt(i) =>
      /\ trace[i].ok => exitCode = 0
      /\ exitCode # 0 => (~trace[i].ok /\ exitCode = 2
                          /\ trace[Len(trace)] = Log("err", "command failed"))

----------------------------------------------------------------------------
(* C39 - the shape of what getContainerStatus returns *)

\* C39: every value returned by getContainerStatus satisfies running implies
\* exists, and when exists is false none of status, created and ports is set,
\* whatever text the engine listing printed.
C39_StatusShape ==
  ret.given =>
    /\ ret.value.running => ret.value.exists
    /\ ~ret.value.exists => DOMAIN ret.value \cap {"status", "created", "ports"} = {}

\* a one-column line "Up": there and running, with the status set and nothing else
C39_Witness ==
  /\ ret.given
  /\ reply = [how |-> "exited", exitCode |-> 0, stdout |-> <<"U", "p">>]
  /\ ret.value = [exists |-> TRUE, running |-> TRUE, status |-> <<"U", "p">>]

\* a listing of blanks only: not there, and nothing but the two flags
C39_BlankListing ==
  /\ ret.given
  /\ reply = [how |-> "exited", exitCode |-> 0, stdout |-> <<" ", "\t">>]
  /\ DOMAIN ret.value = {"exists", "running"} /\ ~ret.value.exists

====
